---- MODULE Spec2Model ----
(***************************************************************************)
(* FlatSQL (DigitalArsenal/flatsql, C++): streaming FlatBuffer store,      *)
(* B-tree index, table catalog, SQLite virtual-table adaptor and query     *)
(* fast path, modelled as state machines.                                  *)
(*                                                                         *)
(* Offsets are 0-based as in the C++ code; TLA+ sequences are 1-based, so  *)
(* byte i of a buffer b is b[i + 1].                                       *)
(***************************************************************************)
EXTENDS Integers, Sequences, FiniteSets, TLC

(***************************************************************************)
(* Program constants (types.h)                                             *)
(***************************************************************************)
SIZE_PREFIX_LENGTH == 4
FILE_IDENTIFIER_OFFSET == 4
FILE_IDENTIFIER_LENGTH == 4

(***************************************************************************)
(* Bounds of the model                                                     *)
(***************************************************************************)
\* longest stream handed to one call when a single call is examined
MaxInputLen == 8
\* the store accepts calls while the log holds at most this many bytes
MaxLog == 14
\* largest initial capacity the store is constructed with
MaxInitialCapacity == 1
\* the store accepts calls while the next sequence is at most this
MaxSeq == 3
\* largest B-tree order examined
MaxOrder == 4
\* most entries inserted into one B-tree
MaxInserts == 4
\* the database accepts ingests while the next sequence is at most this
MaxDbRecords == 2

Byte == {0, 1}

RECURSIVE SeqsUpTo(_, _)
SeqsUpTo(S, n) ==
    IF n = 0 THEN {<<>>}
    ELSE LET shorter == SeqsUpTo(S, n - 1)
         IN  shorter \cup {Append(s, x) : s \in {t \in shorter : Len(t) = n - 1}, x \in S}

\* every byte string of the input alphabet up to the bounds
ByteStrings == SeqsUpTo(Byte, MaxInputLen)

\* inputs of the calls in a sequence of calls: nothing, a partial prefix,
\* an empty record, a record short of its payload, a record with a payload,
\* a record followed by a partial prefix, two records
CallInputs ==
    { <<>>, <<0>>, <<0, 0, 0, 0>>, <<1, 0, 0, 0>>, <<1, 0, 0, 0, 1>>,
      <<0, 0, 0, 0, 1>>, <<0, 0, 0, 0, 0, 0, 0, 0>> }

Min(a, b) == IF a < b THEN a ELSE b

(***************************************************************************)
(* storage.cpp: little-endian helpers, file identifier                     *)
(***************************************************************************)
\* readLE32(src + off)
readLE32(src, off) ==
    src[off + 1] + src[off + 2] * 256 + src[off + 3] * 65536 + src[off + 4] * 16777216

\* the four bytes writeLE32 stores for value
writeLE32(value) ==
    << value % 256, (value \div 256) % 256, (value \div 65536) % 256,
       (value \div 16777216) % 256 >>

\* extractFileId(flatbuffer, length): bytes 4..7, or "" when length < 8
extractFileId(flatbuffer, length) ==
    IF length < 8 THEN <<>>
    ELSE SubSeq(flatbuffer, FILE_IDENTIFIER_OFFSET + 1,
                FILE_IDENTIFIER_OFFSET + FILE_IDENTIFIER_LENGTH)

(***************************************************************************)
(* storage.cpp / storage.h: StreamingFlatBufferStore                       *)
(***************************************************************************)
Zeros(n) == [i \in 1..n |-> 0]

\* memcpy(&d[pos], bytes, Len(bytes))
MemCpy(d, pos, bytes) ==
    [i \in 1..Len(d) |->
        IF i > pos /\ i <= pos + Len(bytes) THEN bytes[i - pos] ELSE d[i]]

\* map[k] = v on an unordered_map
MapPut(m, k, v) == [x \in (DOMAIN m) \cup {k} |-> IF x = k THEN v ELSE m[x]]

EmptyMap == [x \in {} |-> 0]

\* mutant: the sequence counter starts at 0
NewStore_seqFromZero(initialCapacity) ==
    [ data_ |-> Zeros(initialCapacity),
      writeOffset_ |-> 0,
      recordCount_ |-> 0,
      nextSequence_ |-> 0,
      sequenceToOffset_ |-> EmptyMap,
      offsetToSequence_ |-> EmptyMap ]

\* StreamingFlatBufferStore(initialCapacity) with the member initialisers
NewStore(initialCapacity) ==
    [ data_ |-> Zeros(initialCapacity),
      writeOffset_ |-> 0,
      recordCount_ |-> 0,
      nextSequence_ |-> 1,
      sequenceToOffset_ |-> EmptyMap,
      offsetToSequence_ |-> EmptyMap ]

\* the doubling loop of ensureCapacity never ends when it starts from 0
ensureCapacityDiverges(st, needed) ==
    /\ st.writeOffset_ + needed > Len(st.data_)
    /\ Len(st.data_) * 2 = 0

RECURSIVE GrowLoop(_, _)
GrowLoop(newSize, totalNeeded) ==
    IF newSize < totalNeeded THEN GrowLoop(newSize * 2, totalNeeded) ELSE newSize

\* ensureCapacity(needed), for the calls that return
ensureCapacity(st, needed) ==
    LET totalNeeded == st.writeOffset_ + needed
    IN  IF totalNeeded <= Len(st.data_) THEN st
        ELSE LET newSize == GrowLoop(Len(st.data_) * 2, totalNeeded)
             IN  [st EXCEPT !.data_ = st.data_ \o Zeros(newSize - Len(st.data_))]

\* one invocation of the IngestCallback
CallbackArgs(fileId, fbData, fbSize, seq, offset) ==
    [fileId |-> fileId, data |-> fbData, length |-> fbSize,
     sequence |-> seq, offset |-> offset]

\* the append + sequence assignment shared by ingest and ingestOne
\* (storage.cpp 84-93, 125-134): framed is the size prefix plus payload
StoreFramed(st, framed) ==
    LET storeOffset == st.writeOffset_
        grown == ensureCapacity(st, Len(framed))
        seq == st.nextSequence_
    IN  [grown EXCEPT
            !.data_ = MemCpy(grown.data_, storeOffset, framed),
            !.writeOffset_ = storeOffset + Len(framed),
            !.nextSequence_ = seq + 1,
            !.sequenceToOffset_ = MapPut(grown.sequenceToOffset_, seq, storeOffset),
            !.offsetToSequence_ = MapPut(grown.offsetToSequence_, storeOffset, seq),
            !.recordCount_ = grown.recordCount_ + 1]

\* result of a store call: the store after it, what it returned, the
\* callbacks it fired, and whether it threw or never returned
CallResult(st, ret, records, cbs, threw, diverged) ==
    [st |-> st, ret |-> ret, records |-> records, callbacks |-> cbs,
     threw |-> threw, diverged |-> diverged]

\* mutant: the callback is handed the offset in the input, not in the log
RECURSIVE ingestLoop_inputOffset(_, _, _, _, _)
ingestLoop_inputOffset(st, data, offset, records, cbs) ==
    LET length == Len(data) IN
    IF ~(offset + SIZE_PREFIX_LENGTH <= length)
    THEN CallResult(st, offset, records, cbs, FALSE, FALSE)
    ELSE LET fbSize == readLE32(data, offset) IN
         IF offset + SIZE_PREFIX_LENGTH + fbSize > length
         THEN CallResult(st, offset, records, cbs, FALSE, FALSE)
         ELSE IF ensureCapacityDiverges(st, SIZE_PREFIX_LENGTH + fbSize)
         THEN CallResult(st, offset, records, cbs, FALSE, TRUE)
         ELSE LET fbData == SubSeq(data, offset + SIZE_PREFIX_LENGTH + 1,
                                   offset + SIZE_PREFIX_LENGTH + fbSize)
                  framed == SubSeq(data, offset + 1,
                                   offset + SIZE_PREFIX_LENGTH + fbSize)
                  st2 == StoreFramed(st, framed)
                  cb == CallbackArgs(extractFileId(fbData, fbSize), fbData, fbSize,
                                     st.nextSequence_, offset)
              IN  ingestLoop_inputOffset(st2, data, offset + SIZE_PREFIX_LENGTH + fbSize,
                                         records + 1, Append(cbs, cb))

\* the while loop of ingest, from read offset `offset`
RECURSIVE ingestLoop(_, _, _, _, _)
ingestLoop(st, data, offset, records, cbs) ==
    LET length == Len(data) IN
    IF ~(offset + SIZE_PREFIX_LENGTH <= length)
    THEN CallResult(st, offset, records, cbs, FALSE, FALSE)
    ELSE LET fbSize == readLE32(data, offset) IN
         IF offset + SIZE_PREFIX_LENGTH + fbSize > length
         THEN CallResult(st, offset, records, cbs, FALSE, FALSE)
         ELSE IF ensureCapacityDiverges(st, SIZE_PREFIX_LENGTH + fbSize)
         THEN CallResult(st, offset, records, cbs, FALSE, TRUE)
         ELSE LET fbData == SubSeq(data, offset + SIZE_PREFIX_LENGTH + 1,
                                   offset + SIZE_PREFIX_LENGTH + fbSize)
                  framed == SubSeq(data, offset + 1,
                                   offset + SIZE_PREFIX_LENGTH + fbSize)
                  st2 == StoreFramed(st, framed)
                  cb == CallbackArgs(extractFileId(fbData, fbSize), fbData, fbSize,
                                     st.nextSequence_, st.writeOffset_)
              IN  ingestLoop(st2, data, offset + SIZE_PREFIX_LENGTH + fbSize,
                             records + 1, Append(cbs, cb))

\* mutant: ingest reports the whole input as consumed
ingest_returnsLength(st, data) ==
    [ingestLoop(st, data, 0, 0, <<>>) EXCEPT !.ret = Len(data)]

\* StreamingFlatBufferStore::ingest: ret is the number of bytes consumed
ingest(st, data) == ingestLoop(st, data, 0, 0, <<>>)

\* mutant: a call that finds the payload incomplete has taken a sequence
ingestOne_consumesSequence(st, sizePrefixedData) ==
    LET length == Len(sizePrefixedData) IN
    IF length < SIZE_PREFIX_LENGTH
    THEN CallResult(st, 0, 0, <<>>, TRUE, FALSE)
    ELSE LET fbSize == readLE32(sizePrefixedData, 0) IN
         IF length < SIZE_PREFIX_LENGTH + fbSize
         THEN CallResult([st EXCEPT !.nextSequence_ = @ + 1], 0, 0, <<>>, TRUE, FALSE)
         ELSE IF ensureCapacityDiverges(st, SIZE_PREFIX_LENGTH + fbSize)
         THEN CallResult(st, 0, 0, <<>>, FALSE, TRUE)
         ELSE LET fbData == SubSeq(sizePrefixedData, SIZE_PREFIX_LENGTH + 1,
                                   SIZE_PREFIX_LENGTH + fbSize)
                  framed == SubSeq(sizePrefixedData, 1, SIZE_PREFIX_LENGTH + fbSize)
                  cb == CallbackArgs(extractFileId(fbData, fbSize), fbData, fbSize,
                                     st.nextSequence_, st.writeOffset_)
              IN  CallResult(StoreFramed(st, framed), st.nextSequence_, 1, <<cb>>,
                             FALSE, FALSE)

\* StreamingFlatBufferStore::ingestOne: ret is the sequence
ingestOne(st, sizePrefixedData) ==
    LET length == Len(sizePrefixedData) IN
    IF length < SIZE_PREFIX_LENGTH
    THEN CallResult(st, 0, 0, <<>>, TRUE, FALSE)
    ELSE LET fbSize == readLE32(sizePrefixedData, 0) IN
         IF length < SIZE_PREFIX_LENGTH + fbSize
         THEN CallResult(st, 0, 0, <<>>, TRUE, FALSE)
         ELSE IF ensureCapacityDiverges(st, SIZE_PREFIX_LENGTH + fbSize)
         THEN CallResult(st, 0, 0, <<>>, FALSE, TRUE)
         ELSE LET fbData == SubSeq(sizePrefixedData, SIZE_PREFIX_LENGTH + 1,
                                   SIZE_PREFIX_LENGTH + fbSize)
                  framed == SubSeq(sizePrefixedData, 1, SIZE_PREFIX_LENGTH + fbSize)
                  cb == CallbackArgs(extractFileId(fbData, fbSize), fbData, fbSize,
                                     st.nextSequence_, st.writeOffset_)
              IN  CallResult(StoreFramed(st, framed), st.nextSequence_, 1, <<cb>>,
                             FALSE, FALSE)

\* StreamingFlatBufferStore::ingestFlatBuffer: the store writes the prefix
ingestFlatBuffer(st, data) ==
    LET length == Len(data) IN
    IF ensureCapacityDiverges(st, SIZE_PREFIX_LENGTH + length)
    THEN CallResult(st, 0, 0, <<>>, FALSE, TRUE)
    ELSE LET storeOffset == st.writeOffset_
             grown == ensureCapacity(st, SIZE_PREFIX_LENGTH + length)
             withPrefix == MemCpy(grown.data_, storeOffset, writeLE32(length))
             withData == MemCpy(withPrefix, storeOffset + SIZE_PREFIX_LENGTH, data)
             seq == st.nextSequence_
             st2 == [grown EXCEPT
                        !.data_ = withData,
                        !.writeOffset_ = storeOffset + SIZE_PREFIX_LENGTH + length,
                        !.nextSequence_ = seq + 1,
                        !.sequenceToOffset_ = MapPut(grown.sequenceToOffset_, seq, storeOffset),
                        !.offsetToSequence_ = MapPut(grown.offsetToSequence_, storeOffset, seq),
                        !.recordCount_ = grown.recordCount_ + 1]
             cb == CallbackArgs(extractFileId(data, length), data, length, seq, storeOffset)
         IN  CallResult(st2, seq, 1, <<cb>>, FALSE, FALSE)

\* the scan loop of loadAndRebuild: offsets are offsets of the input
RECURSIVE loadLoop(_, _, _, _, _)
loadLoop(st, data, offset, records, cbs) ==
    LET length == Len(data) IN
    IF ~(offset + SIZE_PREFIX_LENGTH <= length)
    THEN CallResult([st EXCEPT !.writeOffset_ = offset], 0, records, cbs, FALSE, FALSE)
    ELSE LET fbSize == readLE32(data, offset) IN
         IF offset + SIZE_PREFIX_LENGTH + fbSize > length
         THEN CallResult([st EXCEPT !.writeOffset_ = offset], 0, records, cbs, FALSE, FALSE)
         ELSE LET fbData == SubSeq(data, offset + SIZE_PREFIX_LENGTH + 1,
                                   offset + SIZE_PREFIX_LENGTH + fbSize)
                  seq == st.nextSequence_
                  st2 == [st EXCEPT
                            !.nextSequence_ = seq + 1,
                            !.sequenceToOffset_ = MapPut(st.sequenceToOffset_, seq, offset),
                            !.offsetToSequence_ = MapPut(st.offsetToSequence_, offset, seq),
                            !.recordCount_ = st.recordCount_ + 1]
                  cb == CallbackArgs(extractFileId(fbData, fbSize), fbData, fbSize, seq, offset)
              IN  loadLoop(st2, data, offset + SIZE_PREFIX_LENGTH + fbSize,
                           records + 1, Append(cbs, cb))

\* mutant: the write offset is set to the input length, tail included
loadAndRebuild_keepsTail(st, data) ==
    IF ensureCapacityDiverges(st, Len(data))
    THEN CallResult(st, 0, 0, <<>>, FALSE, TRUE)
    ELSE LET grown == ensureCapacity(st, Len(data))
             copied == [grown EXCEPT !.data_ = MemCpy(grown.data_, 0, data)]
             r == loadLoop(copied, data, 0, 0, <<>>)
         IN  [r EXCEPT !.st.writeOffset_ = Len(data)]

\* StreamingFlatBufferStore::loadAndRebuild
loadAndRebuild(st, data) ==
    IF ensureCapacityDiverges(st, Len(data))
    THEN CallResult(st, 0, 0, <<>>, FALSE, TRUE)
    ELSE LET grown == ensureCapacity(st, Len(data))
             copied == [grown EXCEPT !.data_ = MemCpy(grown.data_, 0, data)]
         IN  loadLoop(copied, data, 0, 0, <<>>)

\* exportData(): data_[0 .. writeOffset_)
exportData(st) == SubSeq(st.data_, 1, st.writeOffset_)

(***************************************************************************)
(* Values (types.h) and their order (btree.cpp)                            *)
(***************************************************************************)
\* a Value is the variant's alternative index and the value it holds
NullValue == [index |-> 0, v |-> 0]
Int32Value(n) == [index |-> 4, v |-> n]
Int64Value(n) == [index |-> 5, v |-> n]
StringValue(s) == [index |-> 12, v |-> s]

\* the byte loop of the vector branch: first differing element, then length
LexCompare(x, y) ==
    LET minLen == Min(Len(x), Len(y))
        diff == {i \in 1..minLen : x[i] # y[i]}
    IN  IF diff # {}
        THEN LET i == CHOOSE i \in diff : \A j \in diff : i <= j
             IN  IF x[i] < y[i] THEN -1 ELSE 1
        ELSE IF Len(x) < Len(y) THEN -1
        ELSE IF Len(x) > Len(y) THEN 1
        ELSE 0

\* std::string::compare as the library of the native build computes it:
\* the result of comparing the common prefix (the difference of the first
\* differing bytes), else the difference of the lengths
StringCompare(x, y) ==
    LET minLen == Min(Len(x), Len(y))
        diff == {i \in 1..minLen : x[i] # y[i]}
    IN  IF diff # {}
        THEN LET i == CHOOSE i \in diff : \A j \in diff : i <= j
             IN  x[i] - y[i]
        ELSE Len(x) - Len(y)

compareValues(a, b) ==
    IF a.index = 0 THEN (IF b.index = 0 THEN 0 ELSE -1)
    ELSE IF b.index = 0 THEN 1
    ELSE IF a.index # b.index THEN (IF a.index < b.index THEN -1 ELSE 1)
    ELSE IF a.index = 12 THEN StringCompare(a.v, b.v)
    ELSE IF a.index = 13 THEN LexCompare(a.v, b.v)
    ELSE IF a.v < b.v THEN -1
    ELSE IF a.v > b.v THEN 1
    ELSE 0

(***************************************************************************)
(* BTree (btree.cpp)                                                       *)
(***************************************************************************)
IndexEntry(key, dataOffset, dataLength, sequence) ==
    [key |-> key, dataOffset |-> dataOffset, dataLength |-> dataLength,
     sequence |-> sequence]

\* vector::insert before the 0-based position pos
VecInsert(s, pos, e) == SubSeq(s, 1, pos) \o <<e>> \o SubSeq(s, pos + 1, Len(s))

\* the new node gets the id t.nextNodeId_
createNode(t, isLeaf, parentId) ==
    [t EXCEPT !.nodes_ = MapPut(@, t.nextNodeId_,
                                [nodeId |-> t.nextNodeId_, isLeaf |-> isLeaf,
                                 entries |-> <<>>, children |-> <<>>,
                                 parentId |-> parentId]),
              !.nextNodeId_ = @ + 1]

NewBTree(order) ==
    LET empty == [order_ |-> order, nodes_ |-> EmptyMap, rootId_ |-> 0,
                  nextNodeId_ |-> 1, entryCount_ |-> 0]
    IN  [createNode(empty, TRUE, 0) EXCEPT !.rootId_ = empty.nextNodeId_]

\* the loops "i = size - 1; while (i >= 0 && key < entries[i].key) i--":
\* the value of i + 1 when the loop ends
ScanBack(entries, key) ==
    LET notLess == {j \in 1..Len(entries) : compareValues(key, entries[j].key) >= 0}
    IN  IF notLess = {} THEN 0 ELSE CHOOSE j \in notLess : \A m \in notLess : m <= j

\* the loops "while (i < size && key > entries[i].key) i++" from i = 0
SkipWhileGreater(entries, key) ==
    LET stop == {i \in 0..Len(entries) :
                    i = Len(entries) \/ compareValues(key, entries[i + 1].key) <= 0}
    IN  CHOOSE i \in stop : \A m \in stop : i <= m

\* the loop "while (i < size && key == entries[i].key) i++" from i = from
SkipWhileEqual(entries, key, from) ==
    LET stop == {i \in from..Len(entries) :
                    i = Len(entries) \/ compareValues(key, entries[i + 1].key) # 0}
    IN  CHOOSE i \in stop : \A m \in stop : i <= m

splitChild(t, parentId, childIndex) ==
    LET childId == t.nodes_[parentId].children[childIndex + 1]
        child == t.nodes_[childId]
        mid == (t.order_ - 1) \div 2
        siblingId == t.nextNodeId_
        t1 == createNode(t, child.isLeaf, parentId)
        sibEntries == SubSeq(child.entries, mid + 2, Len(child.entries))
        midEntry == child.entries[mid + 1]
        moved == IF child.isLeaf THEN <<>>
                 ELSE SubSeq(child.children, mid + 2, Len(child.children))
        movedIds == {moved[i] : i \in DOMAIN moved}
    IN  [t1 EXCEPT !.nodes_ =
            [id \in DOMAIN t1.nodes_ |->
                IF id = siblingId
                THEN [t1.nodes_[id] EXCEPT !.entries = sibEntries, !.children = moved]
                ELSE IF id = childId
                THEN [child EXCEPT
                        !.entries = SubSeq(child.entries, 1, mid),
                        !.children = IF child.isLeaf THEN @ ELSE SubSeq(@, 1, mid + 1)]
                ELSE IF id = parentId
                THEN [t1.nodes_[id] EXCEPT
                        !.entries = VecInsert(@, childIndex, midEntry),
                        !.children = VecInsert(@, childIndex + 1, siblingId)]
                ELSE IF id \in movedIds
                THEN [t1.nodes_[id] EXCEPT !.parentId = siblingId]
                ELSE t1.nodes_[id]]]

RECURSIVE insertNonFull(_, _, _)
insertNonFull(t, nodeId, entry) ==
    LET node == t.nodes_[nodeId]
        i == ScanBack(node.entries, entry.key)
    IN  IF node.isLeaf
        THEN [t EXCEPT !.nodes_[nodeId].entries = VecInsert(@, i, entry)]
        ELSE LET childId == node.children[i + 1] IN
             IF Len(t.nodes_[childId].entries) >= t.order_ - 1
             THEN LET t1 == splitChild(t, nodeId, i)
                      nodeAfterSplit == t1.nodes_[nodeId]
                      i2 == IF compareValues(entry.key, nodeAfterSplit.entries[i + 1].key) > 0
                            THEN i + 1 ELSE i
                  IN  insertNonFull(t1, nodeAfterSplit.children[i2 + 1], entry)
             ELSE insertNonFull(t, childId, entry)

\* BTree::insert without its final search for the leaf: the root split
splitRoot(t) ==
    IF Len(t.nodes_[t.rootId_].entries) >= t.order_ - 1
    THEN LET newRootId == t.nextNodeId_
             t1 == createNode(t, FALSE, 0)
             t2 == [t1 EXCEPT !.nodes_[newRootId].children = <<t.rootId_>>,
                              !.nodes_[t.rootId_].parentId = newRootId]
         IN  [splitChild(t2, newRootId, 0) EXCEPT !.rootId_ = newRootId]
    ELSE t

insert(t, key, dataOffset, dataLength, sequence) ==
    [insertNonFull(splitRoot(t), splitRoot(t).rootId_,
                   IndexEntry(key, dataOffset, dataLength, sequence))
        EXCEPT !.entryCount_ = @ + 1]

RECURSIVE searchNode(_, _, _)
searchNode(t, nodeId, key) ==
    LET node == t.nodes_[nodeId]
        i == SkipWhileGreater(node.entries, key)
        j == SkipWhileEqual(node.entries, key, i)
        childIdx == SkipWhileGreater(node.entries, key)
    IN  SubSeq(node.entries, i + 1, j) \o
        (IF node.isLeaf THEN <<>> ELSE searchNode(t, node.children[childIdx + 1], key))

search(t, key) == searchNode(t, t.rootId_, key)

\* mutant: the rightmost child is never visited
RECURSIVE rangeSearch_skipsLastChild(_, _, _, _, _)
rangeSearch_skipsLastChild(t, nodeId, i, minKey, maxKey) ==
    LET node == t.nodes_[nodeId] IN
    IF i >= Len(node.entries) THEN <<>>
    ELSE LET entry == node.entries[i + 1]
             cmpMin == compareValues(entry.key, minKey)
             cmpMax == compareValues(entry.key, maxKey)
             left == IF ~node.isLeaf /\ cmpMin >= 0 /\ i < Len(node.children)
                     THEN rangeSearch_skipsLastChild(t, node.children[i + 1], 0, minKey, maxKey)
                     ELSE <<>>
             self == IF cmpMin >= 0 /\ cmpMax <= 0 THEN <<entry>> ELSE <<>>
         IN  IF cmpMax > 0 THEN left \o self
             ELSE left \o self \o rangeSearch_skipsLastChild(t, nodeId, i + 1, minKey, maxKey)

\* BTree::rangeSearch from entry i of the node on: what it appends to results
RECURSIVE rangeSearch(_, _, _, _, _)
rangeSearch(t, nodeId, i, minKey, maxKey) ==
    LET node == t.nodes_[nodeId] IN
    IF i >= Len(node.entries)
    THEN (IF ~node.isLeaf /\ Len(node.children) > i
          THEN rangeSearch(t, node.children[i + 1], 0, minKey, maxKey)
          ELSE <<>>)
    ELSE LET entry == node.entries[i + 1]
             cmpMin == compareValues(entry.key, minKey)
             cmpMax == compareValues(entry.key, maxKey)
             left == IF ~node.isLeaf /\ cmpMin >= 0 /\ i < Len(node.children)
                     THEN rangeSearch(t, node.children[i + 1], 0, minKey, maxKey)
                     ELSE <<>>
             self == IF cmpMin >= 0 /\ cmpMax <= 0 THEN <<entry>> ELSE <<>>
         IN  IF cmpMax > 0 THEN left \o self
             ELSE left \o self \o rangeSearch(t, nodeId, i + 1, minKey, maxKey)

range(t, minKey, maxKey) == rangeSearch(t, t.rootId_, 0, minKey, maxKey)

clear(t) == NewBTree(t.order_)

(***************************************************************************)
(* Schema, records and field extractors of the database under examination  *)
(***************************************************************************)
BytesValue(b) == [index |-> 13, v |-> b]

ColumnDef(name, type, indexed, primaryKey, encrypted) ==
    [name |-> name, type |-> type, indexed |-> indexed,
     primaryKey |-> primaryKey, encrypted |-> encrypted]

\* table User { id:int32 (primary key); name:string (indexed, encrypted) }
UserTableDef ==
    [name |-> "User",
     columns |-> << ColumnDef("id", 4, FALSE, TRUE, FALSE),
                    ColumnDef("name", 12, TRUE, FALSE, TRUE) >>]

SchemaTables == <<UserTableDef>>

\* table Post { id:int32 (primary key); name:string (indexed) }
PostTableDef ==
    [name |-> "Post",
     columns |-> << ColumnDef("id", 4, FALSE, TRUE, FALSE),
                    ColumnDef("name", 12, TRUE, FALSE, FALSE) >>]

\* a schema of two tables, for the bindings of file identifiers
BindingSchemaTables == <<UserTableDef, PostTableDef>>

ColumnNames(tableDef) == [i \in DOMAIN tableDef.columns |-> tableDef.columns[i].name]

\* the columns TableStore builds an index for
IndexedColumns(tableDef) ==
    {tableDef.columns[i].name : i \in {j \in DOMAIN tableDef.columns :
        tableDef.columns[j].indexed \/ tableDef.columns[j].primaryKey}}

IsPrimaryKey(tableDef, colName) ==
    \E i \in DOMAIN tableDef.columns :
        tableDef.columns[i].name = colName /\ tableDef.columns[i].primaryKey

\* file identifiers: the one applications bind to User, and another one
FileIdUser == <<1, 0, 0, 0>>
FileIdOther == <<0, 1, 0, 0>>
FileIds == {FileIdUser, FileIdOther}

\* an unframed record: root offset, file identifier, then the fields id, name
Payload(fileId, id, name) == <<0, 0, 0, 0>> \o fileId \o <<id, name>>

\* records handed to the database: two users (handing over the same one
\* again gives two records with equal fields) and a record that carries the
\* other file identifier
Payloads ==
    { Payload(FileIdUser, 1, 1), Payload(FileIdUser, 2, 2), Payload(FileIdOther, 1, 1) }

\* the extractor an application installs: "demo" is the extractor of
\* flatsql.cpp, which reads id as int32; "none" is the empty std::function
Extractors == {"demo"}

\* the exception of an extractor: "strict" is an application's extractor
\* that refuses a record too short to hold the field it is asked for
ExtractorRaises(extractor, data, length, fieldName) ==
    /\ extractor = "strict"
    /\ \/ fieldName = "id" /\ length < 9
       \/ fieldName = "name" /\ length < 10

ExtractField(extractor, data, length, fieldName) ==
    IF fieldName = "id"
    THEN (IF length < 9 THEN Int32Value(0) ELSE Int32Value(data[9]))
    ELSE IF fieldName = "name"
    THEN (IF length < 10 THEN StringValue(<<>>) ELSE StringValue(<<data[10]>>))
    ELSE NullValue

(***************************************************************************)
(* ingest where size_t is 32 bits wide (wasm32): offset, length and the    *)
(* sums with the size prefix are taken modulo 2^32. A 32-bit value is kept *)
(* as its two 16-bit halves                                                *)
(***************************************************************************)
U32(hi, lo) == [hi |-> hi, lo |-> lo]

\* readLE32 as a 32-bit value
readLE32_u32(src, off) ==
    U32(src[off + 3] + src[off + 4] * 256, src[off + 1] + src[off + 2] * 256)

\* n + v modulo 2^32, for a small n
AddSizeT(n, v) ==
    U32((v.hi + (n + v.lo) \div 65536) % 65536, (n + v.lo) % 65536)

\* v > length, for a small length
ExceedsLength(v, length) == v.hi > 0 \/ v.lo > length

\* the loop condition and the completeness test of ingest at read offset
\* `offset`: the record there is taken as complete
AcceptsRecord32(data, offset) ==
    /\ offset + SIZE_PREFIX_LENGTH <= Len(data)
    /\ ~ExceedsLength(AddSizeT(offset + SIZE_PREFIX_LENGTH, readLE32_u32(data, offset)),
                      Len(data))

\* SIZE_PREFIX_LENGTH + fbSize as size_t: the bytes copied and consumed
Consumed32(data, offset) == AddSizeT(SIZE_PREFIX_LENGTH, readLE32_u32(data, offset))

(***************************************************************************)
(* SqliteIndex (sqlite_index.h, not in the source tree): the contract of   *)
(* spec section 4.C. An index is the list of its entries in insert order.  *)
(***************************************************************************)
NewSqliteIndex == <<>>

SqliteIndex_insert(ix, key, dataOffset, dataLength, sequence) ==
    Append(ix, IndexEntry(key, dataOffset, dataLength, sequence))

\* all entries with an exactly equal key
SqliteIndex_search(ix, key) ==
    SelectSeq(ix, LAMBDA e : compareValues(e.key, key) = 0)

\* one entry with the key: which one is not specified, but it is the same
\* one whenever the index holds the same entries; policy names the choice
SqliteIndex_searchFirst(ix, key, policy) ==
    LET hits == SqliteIndex_search(ix, key) IN
    IF hits = <<>> THEN [hit |-> FALSE, entry |-> IndexEntry(NullValue, 0, 0, 0)]
    ELSE [hit |-> TRUE,
          entry |-> IF policy = "oldest" THEN hits[1] ELSE hits[Len(hits)]]

SearchFirstPolicies == {"oldest", "newest"}

(***************************************************************************)
(* TableStore (database.cpp)                                               *)
(***************************************************************************)
NewTableStore(tableDef) ==
    [tableDef |-> tableDef,
     fileId_ |-> <<>>,
     fieldExtractor_ |-> "none",
     recordCount_ |-> 0,
     recordInfos_ |-> <<>>,
     indexes_ |-> [c \in IndexedColumns(tableDef) |-> NewSqliteIndex]]

\* mutant: the index entry carries the record count instead of the sequence
TableStore_onIngest_countAsSequence(ts, data, length, sequence, offset) ==
    [ts EXCEPT
        !.recordCount_ = @ + 1,
        !.recordInfos_ = Append(@, [offset |-> offset, sequence |-> sequence]),
        !.indexes_ =
            IF ts.fieldExtractor_ = "none" THEN @
            ELSE [c \in DOMAIN @ |->
                    SqliteIndex_insert(@[c],
                        ExtractField(ts.fieldExtractor_, data, length, c),
                        offset, length, ts.recordCount_)]]

\* indexes_ is a std::map keyed by the column name: the loop of onIngest
\* visits the indexes in this order
ColumnNamesInOrder == <<"id", "name">>

\* the loop of onIngest gets as far as the index of column c
IndexReached(ts, data, length, c) ==
    \E i \in DOMAIN ColumnNamesInOrder :
        /\ ColumnNamesInOrder[i] = c
        /\ \A j \in 1..i :
              ColumnNamesInOrder[j] \in DOMAIN ts.indexes_ =>
                ~ExtractorRaises(ts.fieldExtractor_, data, length, ColumnNamesInOrder[j])

\* onIngest is left by the exception of the extractor
TableStore_onIngestRaises(ts, data, length) ==
    \E c \in DOMAIN ts.indexes_ : ExtractorRaises(ts.fieldExtractor_, data, length, c)

TableStore_onIngest(ts, data, length, sequence, offset) ==
    [ts EXCEPT
        !.recordCount_ = @ + 1,
        !.recordInfos_ = Append(@, [offset |-> offset, sequence |-> sequence]),
        !.indexes_ =
            IF ts.fieldExtractor_ = "none" THEN @
            ELSE [c \in DOMAIN @ |->
                    IF IndexReached(ts, data, length, c)
                    THEN SqliteIndex_insert(@[c],
                            ExtractField(ts.fieldExtractor_, data, length, c),
                            offset, length, sequence)
                    ELSE @[c]]]

(***************************************************************************)
(* StreamingFlatBufferStore: reads used by the query layer                 *)
(***************************************************************************)
\* getDataAtOffset(offset, &length): the payload, or an exception
getDataAtOffset(st, offset) ==
    IF offset + SIZE_PREFIX_LENGTH > st.writeOffset_
    THEN [threw |-> TRUE, data |-> <<>>, length |-> 0]
    ELSE LET fbSize == readLE32(st.data_, offset) IN
         IF offset + SIZE_PREFIX_LENGTH + fbSize > st.writeOffset_
         THEN [threw |-> TRUE, data |-> <<>>, length |-> 0]
         ELSE [threw |-> FALSE,
               data |-> SubSeq(st.data_, offset + SIZE_PREFIX_LENGTH + 1,
                               offset + SIZE_PREFIX_LENGTH + fbSize),
               length |-> fbSize]

\* size_t arithmetic of getDataAtOffset over all 64-bit offsets. A size_t is
\* written as the integer of least magnitude congruent to it modulo 2^64:
\* the value 2^64 - k is written -k. Sums of such integers are then the
\* wrapped sums, and the unsigned order puts every negative one above every
\* non-negative one.
SizeGreater(a, b) == IF (a < 0) = (b < 0) THEN a > b ELSE a < 0

\* the byte at data_.data() + i: outside the vector it is whatever the
\* memory holds
MemoryAt(st, i) == IF i \in 0..(Len(st.data_) - 1) THEN {st.data_[i + 1]} ELSE Byte

\* the prefixes the four reads at offset can see
PrefixesAt(st, offset) ==
    {p \in [1..SIZE_PREFIX_LENGTH -> Byte] :
        \A j \in 1..SIZE_PREFIX_LENGTH : p[j] \in MemoryAt(st, offset + j - 1)}

InvalidOffset(read) == [kind |-> "throw", length |-> 0, data |-> <<>>, read |-> read]

\* getDataAtOffset for every offset: the outcomes of the call, each with the
\* byte positions it read. An offset of the last four size_t values passes
\* the first check, because off + SIZE_PREFIX_LENGTH wraps, and the prefix
\* is then read in front of the buffer, which is undefined: the call may
\* fault, or go on with the bytes it found there
getDataAtOffsetOutcomes(st, offset) ==
    IF SizeGreater(offset + SIZE_PREFIX_LENGTH, st.writeOffset_)
    THEN {InvalidOffset({})}
    ELSE LET read == offset..(offset + SIZE_PREFIX_LENGTH - 1) IN
         { IF SizeGreater(offset + SIZE_PREFIX_LENGTH + readLE32(p, 0), st.writeOffset_)
           THEN InvalidOffset(read)
           ELSE [kind |-> "ok", length |-> readLE32(p, 0),
                 data |-> SubSeq(st.data_, offset + SIZE_PREFIX_LENGTH + 1,
                                 offset + SIZE_PREFIX_LENGTH + readLE32(p, 0)),
                 read |-> read] : p \in PrefixesAt(st, offset) }
         \cup (IF offset < 0
               THEN {[kind |-> "fault", length |-> 0, data |-> <<>>, read |-> read]}
               ELSE {})

\* StreamingFlatBufferStore::readRecordAtOffset: the records the call can
\* return.  header.sequence is assigned only when the offset is in
\* offsetToSequence_; otherwise it keeps the indeterminate value of the
\* default-initialised StoredRecord.
readRecordAtOffset(st, offset) ==
    LET got == getDataAtOffset(st, offset) IN
    IF got.threw THEN [threw |-> TRUE, records |-> {}]
    ELSE [threw |-> FALSE,
          records |->
            { [offset |-> offset,
               dataLength |-> got.length,
               fileId |-> extractFileId(got.data, got.length),
               sequence |-> seq,
               data |-> got.data] :
              seq \in IF offset \in DOMAIN st.offsetToSequence_
                      THEN {st.offsetToSequence_[offset]}
                      ELSE 0..(MaxSeq + 1) }]

\* StreamingFlatBufferStore::readRecord
readRecord(st, sequence) ==
    IF sequence \notin DOMAIN st.sequenceToOffset_
    THEN [threw |-> TRUE, records |-> {}]
    ELSE readRecordAtOffset(st, st.sequenceToOffset_[sequence])

\* StreamingFlatBufferStore::iterateRecords with a callback that always
\* continues: for each frame of the log in order, the records
\* readRecordAtOffset can return
RECURSIVE iterateRecords(_, _)
iterateRecords(st, offset) ==
    IF ~(offset + SIZE_PREFIX_LENGTH <= st.writeOffset_) THEN <<>>
    ELSE LET fbSize == readLE32(st.data_, offset) IN
         IF offset + SIZE_PREFIX_LENGTH + fbSize > st.writeOffset_ THEN <<>>
         ELSE <<readRecordAtOffset(st, offset).records>>
                \o iterateRecords(st, offset + SIZE_PREFIX_LENGTH + fbSize)

\* StreamingFlatBufferStore::iterateByFileId
iterateByFileId(st, fileId) ==
    SelectSeq(iterateRecords(st, 0), LAMBDA recs : \A rec \in recs : rec.fileId = fileId)

\* StreamingFlatBufferStore::hasRecord
hasRecord(st, sequence) == sequence \in DOMAIN st.sequenceToOffset_

\* the inlined read of the scans: size prefix at dataBuffer + offset, payload
\* after it
RecordAt(st, offset) ==
    LET len == readLE32(st.data_, offset) IN
    [data |-> SubSeq(st.data_, offset + SIZE_PREFIX_LENGTH + 1,
                     offset + SIZE_PREFIX_LENGTH + len),
     length |-> len]

\* file_id_to_record_infos of the store (spec section 4.B; its code is not
\* in the source tree): every stored record pushes {offset, sequence} onto
\* the vector of its file identifier
RECURSIVE pushRecordInfos(_, _)
pushRecordInfos(vectors, cbs) ==
    IF cbs = <<>> THEN vectors
    ELSE LET cb == Head(cbs)
             old == IF cb.fileId \in DOMAIN vectors THEN vectors[cb.fileId] ELSE <<>>
         IN  pushRecordInfos(
                MapPut(vectors, cb.fileId,
                       Append(old, [offset |-> cb.offset, sequence |-> cb.sequence])),
                Tail(cbs))

\* getRecordInfoVector(fileId): the vector, or nullptr as the empty vector
getRecordInfoVector(vectors, fileId) ==
    IF fileId \in DOMAIN vectors THEN vectors[fileId] ELSE <<>>

(***************************************************************************)
(* SQLiteEngine (sqlite_engine.cpp): sources and tombstones                *)
(***************************************************************************)
NullSource == "nullptr"

\* sources_ and the name cache are the engine's members; vtabs_ and views_
\* are the virtual tables and the views in the catalog of its sqlite3
\* handle
NewSQLiteEngine ==
    [sources_ |-> EmptyMap, sourceNameCache_ |-> EmptyMap,
     vtabs_ |-> {}, views_ |-> EmptyMap]

\* registerSource: the SourceInfo it stores. indexes, tableDef and
\* sourceRecordInfos are pointers into the TableStore of the same name and
\* are read through it. CREATE VIRTUAL TABLE runs xConnect inside
\* registerSource, which copies VTabCreateInfo::encryptionCtx (still null)
\* into the vtab. CREATE VIRTUAL TABLE fails when the catalog already has a
\* table or a view of the name; the source is then erased again
SQLiteEngine_registerSource(engine, sourceName, fileId, extractor) ==
    IF sourceName \in DOMAIN engine.sources_
    THEN [engine |-> engine, threw |-> TRUE]
    ELSE IF sourceName \in engine.vtabs_ \cup DOMAIN engine.views_
    THEN [engine |-> engine, threw |-> TRUE]
    ELSE [engine |->
            [engine EXCEPT !.sources_ =
                MapPut(@, sourceName,
                       [name |-> sourceName, fileId |-> fileId,
                        extractor |-> extractor, tombstones |-> {},
                        encryptionCtx |-> FALSE, vtabEncryptionCtx |-> FALSE]),
                           !.vtabs_ = @ \cup {sourceName}],
          threw |-> FALSE]

\* SQLiteEngine::createUnifiedView: every member must be a registered
\* source (all tables of the model have the same number of columns); the
\* table or view of the name is dropped, sources_ is left alone, and the
\* view is created
SQLiteEngine_createUnifiedView(engine, viewName, sourceNames) ==
    IF sourceNames = <<>> THEN [engine |-> engine, threw |-> TRUE]
    ELSE IF \E i \in DOMAIN sourceNames : sourceNames[i] \notin DOMAIN engine.sources_
    THEN [engine |-> engine, threw |-> TRUE]
    ELSE [engine |-> [engine EXCEPT !.vtabs_ = @ \ {viewName},
                                    !.views_ = MapPut(@, viewName, sourceNames)],
          threw |-> FALSE]

SQLiteEngine_markDeleted(engine, sourceName, sequence) ==
    IF sourceName \notin DOMAIN engine.sources_
    THEN [engine |-> engine, threw |-> TRUE]
    ELSE [engine |-> [engine EXCEPT !.sources_[sourceName].tombstones = @ \cup {sequence}],
          threw |-> FALSE]

\* mutant: the tombstones stay
SQLiteEngine_clearTombstones_keeps(engine, sourceName) == engine

SQLiteEngine_clearTombstones(engine, sourceName) ==
    IF sourceName \in DOMAIN engine.sources_
    THEN [engine EXCEPT !.sources_[sourceName].tombstones = {}]
    ELSE engine

SQLiteEngine_getDeletedCount(engine, sourceName) ==
    IF sourceName \notin DOMAIN engine.sources_ THEN 0
    ELSE Cardinality(engine.sources_[sourceName].tombstones)

(***************************************************************************)
(* FlatSQLDatabase (database.cpp): catalog and ingest                      *)
(***************************************************************************)
\* the store of a database is built with the default capacity (1 MiB in
\* storage.h); the model scales it down, the growth code is the same
DbCapacity == 16

\* TableStore::scanAll
TableStore_scanAll(ts, storage) == iterateByFileId(storage, ts.fileId_)

getSourceTableName(baseTable, source) == baseTable \o "@" \o source

\* FlatSQLDatabase(schema); policy is the entry the indexes' searchFirst picks
NewDatabaseOf(schemaTables, policy) ==
    [storage_ |-> NewStore(DbCapacity),
     recordInfoVectors |-> EmptyMap,
     tables_ |-> [n \in {schemaTables[i].name : i \in DOMAIN schemaTables} |->
                    NewTableStore(CHOOSE d \in {schemaTables[i] : i \in DOMAIN schemaTables} :
                                    d.name = n)],
     fileIdToTable_ |-> EmptyMap,
     sourceFileIdToTable_ |-> EmptyMap,
     registeredSources_ |-> <<>>,
     sqliteInitialized_ |-> FALSE,
     sqliteRegisteredTables_ |-> {},
     encryptionCtx_ |-> FALSE,
     sqliteEngine_ |-> NewSQLiteEngine,
     searchFirstPolicy |-> policy]

NewDatabase(policy) == NewDatabaseOf(SchemaTables, policy)

DbResult(db, ret, threw) == [db |-> db, ret |-> ret, threw |-> threw]

FlatSQLDatabase_registerFileId(db, fileId, tableName) ==
    IF tableName \notin DOMAIN db.tables_ THEN DbResult(db, 0, TRUE)
    ELSE DbResult([db EXCEPT !.fileIdToTable_ = MapPut(@, fileId, tableName),
                             !.tables_[tableName].fileId_ = fileId],
                  0, FALSE)

\* mutant: a record of an unbound file identifier goes to the first table
FlatSQLDatabase_onIngest_defaultTable(db, cb) ==
    LET tableName == IF cb.fileId \in DOMAIN db.fileIdToTable_
                     THEN db.fileIdToTable_[cb.fileId] ELSE SchemaTables[1].name
    IN  IF tableName \in DOMAIN db.tables_
        THEN [db EXCEPT !.tables_[tableName] =
                TableStore_onIngest(@, cb.data, cb.length, cb.sequence, cb.offset)]
        ELSE db

FlatSQLDatabase_onIngest(db, cb) ==
    IF cb.fileId \notin DOMAIN db.fileIdToTable_ THEN db
    ELSE LET tableName == db.fileIdToTable_[cb.fileId] IN
         IF tableName \in DOMAIN db.tables_
         THEN [db EXCEPT !.tables_[tableName] =
                    TableStore_onIngest(@, cb.data, cb.length, cb.sequence, cb.offset)]
         ELSE db

FlatSQLDatabase_onIngestWithSource(db, cb, source) ==
    LET sourceKey == <<source, cb.fileId>> IN
    IF sourceKey \notin DOMAIN db.sourceFileIdToTable_ THEN db
    ELSE LET tableName == db.sourceFileIdToTable_[sourceKey] IN
         IF tableName \in DOMAIN db.tables_
         THEN [db EXCEPT !.tables_[tableName] =
                    TableStore_onIngest(@, cb.data, cb.length, cb.sequence, cb.offset)]
         ELSE db

\* the table a callback hands its record to, if any
CallbackTable(db, cb, tagged, source) ==
    IF tagged
    THEN (IF <<source, cb.fileId>> \in DOMAIN db.sourceFileIdToTable_
          THEN {db.sourceFileIdToTable_[<<source, cb.fileId>>]} \cap DOMAIN db.tables_
          ELSE {})
    ELSE (IF cb.fileId \in DOMAIN db.fileIdToTable_
          THEN {db.fileIdToTable_[cb.fileId]} \cap DOMAIN db.tables_
          ELSE {})

\* the callback is left by the exception of the table's extractor
CallbackRaises(db, cb, tagged, source) ==
    \E t \in CallbackTable(db, cb, tagged, source) :
        TableStore_onIngestRaises(db.tables_[t], cb.data, cb.length)

\* the first callback of a store call that raises, 0 when none does
RaisedAt(db, cbs, tagged, source) ==
    IF \E i \in DOMAIN cbs : CallbackRaises(db, cbs[i], tagged, source)
    THEN CHOOSE i \in DOMAIN cbs :
            /\ CallbackRaises(db, cbs[i], tagged, source)
            /\ \A j \in 1..(i - 1) : ~CallbackRaises(db, cbs[j], tagged, source)
    ELSE 0

\* the callbacks of one store call, in order; tagged tells the two lambdas
\* apart; an exception ends the call
RECURSIVE RouteCallbacks(_, _, _, _)
RouteCallbacks(db, cbs, tagged, source) ==
    IF cbs = <<>> THEN db
    ELSE RouteCallbacks(IF tagged THEN FlatSQLDatabase_onIngestWithSource(db, Head(cbs), source)
                        ELSE FlatSQLDatabase_onIngest(db, Head(cbs)),
                        IF CallbackRaises(db, Head(cbs), tagged, source)
                        THEN <<>> ELSE Tail(cbs),
                        tagged, source)

\* a store call made by the database: the store changes, its record-info
\* vectors grow, the callbacks are routed
AfterStoreCall(db, r, tagged, source) ==
    DbResult(RouteCallbacks([db EXCEPT !.storage_ = r.st,
                                       !.recordInfoVectors = pushRecordInfos(@, r.callbacks)],
                            r.callbacks, tagged, source),
             r.ret, r.threw \/ RaisedAt(db, r.callbacks, tagged, source) # 0)

\* the store's ingest loop as the database sees it: an exception of callback k
\* leaves the loop after the k-th frame, the rest of the input is not read
ingestUntilRaise(db, data, r, tagged, source) ==
    IF RaisedAt(db, r.callbacks, tagged, source) = 0 THEN r
    ELSE ingest(db.storage_,
                SubSeq(data, 1,
                       r.callbacks[RaisedAt(db, r.callbacks, tagged, source)].offset
                       + SIZE_PREFIX_LENGTH
                       + r.callbacks[RaisedAt(db, r.callbacks, tagged, source)].length
                       - r.callbacks[1].offset))

FlatSQLDatabase_ingest(db, data) ==
    AfterStoreCall(db, ingestUntilRaise(db, data, ingest(db.storage_, data), FALSE, ""),
                   FALSE, "")

FlatSQLDatabase_ingestOne(db, flatbuffer) ==
    AfterStoreCall(db, ingestFlatBuffer(db.storage_, flatbuffer), FALSE, "")

FlatSQLDatabase_loadAndRebuild(db, data) ==
    AfterStoreCall(db, loadAndRebuild(db.storage_, data), FALSE, "")

FlatSQLDatabase_ingestWithSource(db, data, source) ==
    AfterStoreCall(db, ingestUntilRaise(db, data, ingest(db.storage_, data), TRUE, source),
                   TRUE, source)

FlatSQLDatabase_ingestOneWithSource(db, flatbuffer, source) ==
    AfterStoreCall(db, ingestFlatBuffer(db.storage_, flatbuffer), TRUE, source)

FlatSQLDatabase_exportData(db) == exportData(db.storage_)

\* updateSQLiteTable leaves by the exception of registerSource
updateSQLiteTableThrows(db, tableName) ==
    /\ tableName \in DOMAIN db.tables_
    /\ tableName \notin db.sqliteRegisteredTables_
    /\ SQLiteEngine_registerSource(db.sqliteEngine_, tableName,
                                   db.tables_[tableName].fileId_,
                                   db.tables_[tableName].fieldExtractor_).threw

\* the database after updateSQLiteTable, also when it threw
FlatSQLDatabase_updateSQLiteTable(db, tableName) ==
    IF tableName \notin DOMAIN db.tables_ THEN db
    ELSE IF tableName \in db.sqliteRegisteredTables_ THEN db
    ELSE IF updateSQLiteTableThrows(db, tableName) THEN db
    ELSE LET ts == db.tables_[tableName]
             reg == SQLiteEngine_registerSource(db.sqliteEngine_, tableName,
                                                ts.fileId_, ts.fieldExtractor_)
             engine == IF db.encryptionCtx_
                       THEN [reg.engine EXCEPT !.sources_[tableName].encryptionCtx = TRUE]
                       ELSE reg.engine
         IN  [db EXCEPT !.sqliteEngine_ = engine,
                        !.sqliteRegisteredTables_ = @ \cup {tableName}]

\* the keys of std::map tables_ in iteration order: byte order of the
\* names, in which '@' sorts before every letter
BaseNamesInOrder == <<"Post", "User">>

SourceNamesInOrder == <<"A", "B", "s1">>

TableNamesInOrder ==
    LET twins(b) == [i \in DOMAIN SourceNamesInOrder |->
                        b \o "@" \o SourceNamesInOrder[i]]
        F[i \in 0..Len(BaseNamesInOrder)] ==
            IF i = 0 THEN <<>>
            ELSE F[i - 1] \o <<BaseNamesInOrder[i]>> \o twins(BaseNamesInOrder[i])
    IN  F[Len(BaseNamesInOrder)]

\* the loop of initializeSQLiteEngine over names, left at the first exception
RECURSIVE UpdateSQLiteTables(_, _)
UpdateSQLiteTables(db, names) ==
    IF names = <<>> THEN DbResult(db, 0, FALSE)
    ELSE IF updateSQLiteTableThrows(db, Head(names)) THEN DbResult(db, 0, TRUE)
    ELSE UpdateSQLiteTables(FlatSQLDatabase_updateSQLiteTable(db, Head(names)), Tail(names))

TablesWithFileId(db) ==
    SelectSeq(TableNamesInOrder,
              LAMBDA n : n \in DOMAIN db.tables_ /\ db.tables_[n].fileId_ # <<>>)

initializeSQLiteEngineThrows(db) ==
    ~db.sqliteInitialized_ /\ UpdateSQLiteTables(db, TablesWithFileId(db)).threw

\* the database after initializeSQLiteEngine, also when it threw
FlatSQLDatabase_initializeSQLiteEngine(db) ==
    IF db.sqliteInitialized_ THEN db
    ELSE LET r == UpdateSQLiteTables(db, TablesWithFileId(db)) IN
         IF r.threw THEN r.db ELSE [r.db EXCEPT !.sqliteInitialized_ = TRUE]

FlatSQLDatabase_setFieldExtractor(db, tableName, extractor) ==
    IF tableName \notin DOMAIN db.tables_ THEN DbResult(db, 0, TRUE)
    ELSE LET db1 == [db EXCEPT !.tables_[tableName].fieldExtractor_ = extractor] IN
         IF db1.tables_[tableName].fileId_ # <<>>
         THEN DbResult(FlatSQLDatabase_updateSQLiteTable(db1, tableName), 0,
                       updateSQLiteTableThrows(db1, tableName))
         ELSE DbResult(db1, 0, FALSE)

\* createSourceTable for one base table
FlatSQLDatabase_createSourceTable(db, baseTableName, source) ==
    IF baseTableName \notin DOMAIN db.tables_ THEN db
    ELSE LET sourceTableName == getSourceTableName(baseTableName, source)
             base == db.tables_[baseTableName]
             fresh == NewTableStore(base.tableDef)
             twin == IF base.fileId_ # <<>>
                     THEN [fresh EXCEPT !.fileId_ = base.fileId_,
                                        !.fieldExtractor_ = base.fieldExtractor_]
                     ELSE fresh
         IN  [db EXCEPT
                !.tables_ = MapPut(@, sourceTableName, twin),
                !.sourceFileIdToTable_ =
                    IF base.fileId_ # <<>>
                    THEN MapPut(@, <<source, base.fileId_>>, sourceTableName)
                    ELSE @]

RECURSIVE CreateSourceTables(_, _, _)
CreateSourceTables(db, i, source) ==
    IF i > Len(SchemaTables) THEN db
    ELSE CreateSourceTables(FlatSQLDatabase_createSourceTable(db, SchemaTables[i].name, source),
                            i + 1, source)

FlatSQLDatabase_registerSource(db, sourceName) ==
    IF \E i \in DOMAIN db.registeredSources_ : db.registeredSources_[i] = sourceName
    THEN DbResult(db, 0, TRUE)
    ELSE DbResult(CreateSourceTables([db EXCEPT !.registeredSources_ = Append(@, sourceName)],
                                     1, sourceName),
                  0, FALSE)

\* createUnifiedViews for the tables of schemaTables from index i on: the
\* source tables it registers with the engine, then the view
RECURSIVE CreateUnifiedViewsFrom(_, _, _)
CreateUnifiedViewsFrom(db, schemaTables, i) ==
    IF i > Len(schemaTables) THEN DbResult(db, 0, FALSE)
    ELSE LET names == [k \in DOMAIN db.registeredSources_ |->
                          getSourceTableName(schemaTables[i].name, db.registeredSources_[k])]
             sourceTableNames == SelectSeq(names, LAMBDA n : n \in DOMAIN db.tables_)
             reg == UpdateSQLiteTables(db, sourceTableNames)
         IN  IF reg.threw THEN reg
             ELSE IF sourceTableNames = <<>>
             THEN CreateUnifiedViewsFrom(reg.db, schemaTables, i + 1)
             ELSE LET v == SQLiteEngine_createUnifiedView(reg.db.sqliteEngine_,
                                                          schemaTables[i].name,
                                                          sourceTableNames)
                  IN  IF v.threw THEN DbResult(reg.db, 0, TRUE)
                      ELSE CreateUnifiedViewsFrom([reg.db EXCEPT !.sqliteEngine_ = v.engine],
                                                  schemaTables, i + 1)

FlatSQLDatabase_createUnifiedViews(db) ==
    IF db.registeredSources_ = <<>> THEN DbResult(db, 0, FALSE)
    ELSE CreateUnifiedViewsFrom(db, SchemaTables, 1)

FlatSQLDatabase_markDeleted(db, tableName, sequence) ==
    LET r == SQLiteEngine_markDeleted(db.sqliteEngine_, tableName, sequence) IN
    DbResult([db EXCEPT !.sqliteEngine_ = r.engine], 0, r.threw)

FlatSQLDatabase_clearTombstones(db, tableName) ==
    [db EXCEPT !.sqliteEngine_ = SQLiteEngine_clearTombstones(@, tableName)]

FlatSQLDatabase_setEncryptionKey(db) == [db EXCEPT !.encryptionCtx_ = TRUE]

(***************************************************************************)
(* Values crossing the SQLite API (sqlite_engine.cpp, sqlite_vtab.cpp)     *)
(***************************************************************************)
SqliteValue(type, v) == [type |-> type, v |-> v]

\* bindValue: the SQLite value a parameter is bound as
bindValue(value) ==
    IF value.index = 0 THEN SqliteValue("NULL", 0)
    ELSE IF value.index \in 1..9 THEN SqliteValue("INTEGER", value.v)
    ELSE IF value.index \in {10, 11} THEN SqliteValue("FLOAT", value.v)
    ELSE IF value.index = 12 THEN SqliteValue("TEXT", value.v)
    ELSE SqliteValue("BLOB", value.v)

\* std::string(const char*): the characters before the first NUL
RECURSIVE CString(_)
CString(text) ==
    IF text = <<>> \/ Head(text) = 0 THEN <<>> ELSE <<Head(text)>> \o CString(Tail(text))

\* valueFromSqlite: the Value xFilter searches with
valueFromSqlite(val) ==
    IF val.type = "INTEGER" THEN Int64Value(val.v)
    ELSE IF val.type = "FLOAT" THEN [index |-> 11, v |-> val.v]
    ELSE IF val.type = "TEXT" THEN StringValue(CString(val.v))
    ELSE IF val.type = "BLOB" THEN BytesValue(val.v)
    ELSE NullValue

\* setResultFromValue: the SQLite value xColumn hands to the executor
setResultFromValue(value) ==
    IF value.index = 0 THEN SqliteValue("NULL", 0)
    ELSE IF value.index \in 1..9 THEN SqliteValue("INTEGER", value.v)
    ELSE IF value.index \in {10, 11} THEN SqliteValue("FLOAT", value.v)
    ELSE IF value.index = 12 THEN SqliteValue("TEXT", value.v)
    ELSE SqliteValue("BLOB", value.v)

\* the switch of execute on sqlite3_column_type: the Value put in the row
columnValue(val) ==
    IF val.type = "INTEGER" THEN Int64Value(val.v)
    ELSE IF val.type = "FLOAT" THEN [index |-> 11, v |-> val.v]
    ELSE IF val.type = "TEXT" THEN StringValue(val.v)
    ELSE IF val.type = "BLOB" THEN BytesValue(val.v)
    ELSE NullValue

\* decryptColumnValue: the cipher is outside the source tree; it changes
\* every value it is applied to
decryptColumnValue(value) ==
    IF value.index \in {12, 13} THEN [value EXCEPT !.v = [i \in DOMAIN @ |-> @[i] + 100]]
    ELSE IF value.index = 0 THEN value
    ELSE [value EXCEPT !.v = @ + 100]

(***************************************************************************)
(* The statement text: normalizeSQL and the parse of tryFastPath           *)
(***************************************************************************)
\* the character at 0-based position i of a std::string
CharAt(str, i) == SubSeq(str, i + 1, i + 1)

\* std::string::substr(pos) and substr(pos, n)
SubstrFrom(str, pos) == SubSeq(str, pos + 1, Len(str))
Substr(str, pos, n) == SubSeq(str, pos + 1, Min(pos + n, Len(str)))

npos == -1

\* std::string::find(pat, from): the first position at or after from
StringFind(str, pat, from) ==
    LET at == {i \in from..(Len(str) - Len(pat)) : Substr(str, i, Len(pat)) = pat}
    IN  IF at = {} THEN npos ELSE CHOOSE i \in at : \A j \in at : i <= j

isspace(c) == c \in {" ", "\t", "\n"}

UpperToLower ==
    ("S" :> "s") @@ ("E" :> "e") @@ ("L" :> "l") @@ ("C" :> "c") @@ ("T" :> "t") @@
    ("F" :> "f") @@ ("R" :> "r") @@ ("O" :> "o") @@ ("M" :> "m") @@ ("U" :> "u") @@
    ("W" :> "w") @@ ("H" :> "h") @@ ("I" :> "i") @@ ("D" :> "d") @@ ("N" :> "n") @@
    ("A" :> "a")
tolower(c) == IF c \in DOMAIN UpperToLower THEN UpperToLower[c] ELSE c

\* the loop of normalizeSQL from character i on
RECURSIVE normalizeLoop(_, _, _, _)
normalizeLoop(sql, i, result, inSpace) ==
    IF i >= Len(sql) THEN result
    ELSE LET c == CharAt(sql, i) IN
         IF isspace(c)
         THEN (IF ~inSpace /\ result # ""
               THEN normalizeLoop(sql, i + 1, result \o " ", TRUE)
               ELSE normalizeLoop(sql, i + 1, result, inSpace))
         ELSE normalizeLoop(sql, i + 1, result \o tolower(c), FALSE)

PopBack(str) == SubSeq(str, 1, Len(str) - 1)
Back(str) == CharAt(str, Len(str) - 1)

normalizeSQL(sql) ==
    LET result == normalizeLoop(sql, 0, "", TRUE)
    IN  IF result # "" /\ Back(result) = " " THEN PopBack(result) ELSE result

\* while (!s.empty() && s.back() is one of chars) s.pop_back()
RECURSIVE PopBackWhile(_, _)
PopBackWhile(str, chars) ==
    IF str # "" /\ Back(str) \in chars THEN PopBackWhile(PopBack(str), chars) ELSE str

\* a double-quoted identifier loses its quotes
Unquote(str) ==
    IF Len(str) >= 2 /\ CharAt(str, 0) = "\"" /\ Back(str) = "\""
    THEN Substr(str, 1, Len(str) - 2) ELSE str

ParsedQuery(tableName, columnName, isPointQuery, isFullScan) ==
    [tableName |-> tableName, columnName |-> columnName,
     isPointQuery |-> isPointQuery, isFullScan |-> isFullScan]

SelectStarFrom == "select * from "

\* the WHERE clause of a point query: the column is what precedes the first
\* " = ?" (else the first "= ?")
ParseWhere(tableName, whereClause) ==
    LET spaced == StringFind(whereClause, " = ?", 0)
        eqPos == IF spaced = npos THEN StringFind(whereClause, "= ?", 0) ELSE spaced
    IN  IF eqPos # npos
        THEN ParsedQuery(tableName,
                         Unquote(PopBackWhile(Substr(whereClause, 0, eqPos), {" "})),
                         TRUE, FALSE)
        ELSE ParsedQuery(tableName, "", FALSE, FALSE)

\* tryFastPath's parse of a statement text not yet in parsedQueryCache_
ParseQuery(sql) ==
    LET normalized == normalizeSQL(sql) IN
    IF Len(normalized) < 14 \/ Substr(normalized, 0, 14) # SelectStarFrom
    THEN ParsedQuery("", "", FALSE, FALSE)
    ELSE LET wherePos == StringFind(normalized, " where ", 14) IN
         IF wherePos = npos
         THEN ParsedQuery(Unquote(PopBackWhile(SubstrFrom(normalized, 14), {" ", ";"})),
                          "", FALSE, TRUE)
         ELSE ParseWhere(Unquote(Substr(normalized, 14, wherePos - 14)),
                         SubstrFrom(normalized, wherePos + 7))

(***************************************************************************)
(* SQLiteEngine::tryFastPath and the virtual table (sqlite_vtab.cpp)       *)
(***************************************************************************)
\* std::tolower over the names in use
LowerOf == ("User" :> "user") @@ ("User@s1" :> "user@s1")
ToLower(name) == IF name \in DOMAIN LowerOf THEN LowerOf[name] ELSE name

VirtualColumns == <<"_source", "_rowid", "_offset", "_data">>

QueryResult(columns, rows) == [columns |-> columns, rows |-> rows]

\* a SQL text of one of the two shapes:
\*   SELECT * FROM "table"               (shape "scan")
\*   SELECT * FROM "table" WHERE column = ?   (shape "point")
Sql(shape, table, column) == [shape |-> shape, table |-> table, column |-> column]

findSourceCaseInsensitive(engine, lowerTableName) ==
    IF lowerTableName \in DOMAIN engine.sourceNameCache_
    THEN [source |-> engine.sourceNameCache_[lowerTableName], engine |-> engine]
    ELSE IF lowerTableName \in DOMAIN engine.sources_
    THEN [source |-> lowerTableName, engine |-> engine]
    ELSE LET matches == {n \in DOMAIN engine.sources_ : ToLower(n) = lowerTableName}
             hit == IF matches = {} THEN NullSource ELSE CHOOSE n \in matches : TRUE
         IN  [source |-> hit,
              engine |-> [engine EXCEPT !.sourceNameCache_ = MapPut(@, lowerTableName, hit)]]

\* the real columns of a row as the fast path builds them
ExtractedColumns(tableDef, extractor, data, length) ==
    [i \in DOMAIN tableDef.columns |->
        IF extractor = "none" THEN NullValue
        ELSE ExtractField(extractor, data, length, tableDef.columns[i].name)]

\* building the real columns of a row is left by the extractor's exception
ExtractionRaises(tableDef, extractor, data, length) ==
    \E i \in DOMAIN tableDef.columns :
        ExtractorRaises(extractor, data, length, tableDef.columns[i].name)

FastPathRow(source, tableDef, data, length, sequence, offset) ==
    ExtractedColumns(tableDef, source.extractor, data, length) \o
    << StringValue(source.name), Int64Value(sequence), Int64Value(offset), NullValue >>

FastPathMiss(engine) ==
    [hit |-> FALSE, result |-> QueryResult(<<>>, <<>>), engine |-> engine, threw |-> FALSE]

\* the full-scan branch, entered when the source has a store, a table
\* definition and an extractor
FastPathFullScan(db, source, engine) ==
    LET tableDef == db.tables_[source.name].tableDef
        recordInfos == getRecordInfoVector(db.recordInfoVectors, source.fileId)
        live == SelectSeq(recordInfos, LAMBDA info : info.sequence \notin source.tombstones)
    IN  IF \E i \in DOMAIN live :
                ExtractionRaises(tableDef, source.extractor,
                                 RecordAt(db.storage_, live[i].offset).data,
                                 RecordAt(db.storage_, live[i].offset).length)
        THEN [hit |-> FALSE, result |-> QueryResult(<<>>, <<>>),
              engine |-> engine, threw |-> TRUE]
        ELSE
        [hit |-> TRUE,
         result |-> QueryResult(ColumnNames(tableDef) \o VirtualColumns,
                        [i \in DOMAIN live |->
                            LET rec == RecordAt(db.storage_, live[i].offset)
                            IN  FastPathRow(source, tableDef, rec.data, rec.length,
                                            live[i].sequence, live[i].offset)]),
         engine |-> engine, threw |-> FALSE]

\* the point-query branch
FastPathPoint(db, source, engine, columnName, searchValue) ==
    LET ts == db.tables_[source.name]
        columns == ColumnNames(ts.tableDef) \o VirtualColumns
    IN  IF columnName \notin DOMAIN ts.indexes_ THEN FastPathMiss(engine)
        ELSE LET first == SqliteIndex_searchFirst(ts.indexes_[columnName], searchValue,
                                                  db.searchFirstPolicy) IN
             IF ~first.hit \/ first.entry.sequence \in source.tombstones
             THEN [hit |-> TRUE, result |-> QueryResult(columns, <<>>),
                   engine |-> engine, threw |-> FALSE]
             ELSE LET rec == getDataAtOffset(db.storage_, first.entry.dataOffset) IN
                  IF rec.threw \/ ExtractionRaises(ts.tableDef, source.extractor,
                                                     rec.data, rec.length)
                  THEN [hit |-> FALSE, result |-> QueryResult(<<>>, <<>>),
                        engine |-> engine, threw |-> TRUE]
                  ELSE [hit |-> TRUE,
                        result |-> QueryResult(columns,
                            << FastPathRow(source, ts.tableDef, rec.data, rec.length,
                                           first.entry.sequence, first.entry.dataOffset) >>),
                        engine |-> engine, threw |-> FALSE]

tryFastPath(db, sql, params) ==
    LET engine == db.sqliteEngine_
        isFullScan == sql.shape = "scan"
        isPointQuery == sql.shape = "point"
        found == findSourceCaseInsensitive(engine, ToLower(sql.table))
        source == IF found.source = NullSource THEN found.source
                  ELSE engine.sources_[found.source]
    IN  IF isFullScan /\ params = <<>>
        THEN (IF found.source # NullSource /\ source.extractor # "none"
              THEN FastPathFullScan(db, source, found.engine)
              ELSE FastPathMiss(found.engine))
        ELSE IF ~isPointQuery \/ Len(params) # 1 \/ sql.column = ""
        THEN FastPathMiss(engine)
        ELSE IF found.source = NullSource THEN FastPathMiss(found.engine)
        ELSE FastPathPoint(db, source, found.engine, ToLower(sql.column), params[1])

\* xColumn for every column of the cursor's row, read back by execute
VTabRow(source, tableDef, data, length, sequence, offset) ==
    [i \in DOMAIN tableDef.columns |->
        IF source.extractor = "none" THEN columnValue(SqliteValue("NULL", 0))
        ELSE LET cached == ExtractField(source.extractor, data, length,
                                        tableDef.columns[i].name)
                 plain == IF source.vtabEncryptionCtx /\ tableDef.columns[i].encrypted
                          THEN decryptColumnValue(cached) ELSE cached
             IN  columnValue(setResultFromValue(plain))] \o
    << columnValue(SqliteValue("TEXT", source.name)),
       columnValue(SqliteValue("INTEGER", sequence)),
       columnValue(SqliteValue("INTEGER", offset)),
       IF length > 0 THEN columnValue(SqliteValue("BLOB", data))
       ELSE columnValue(SqliteValue("NULL", 0)) >>

\* xFilter strategy 0 followed by xNext to the end
VTabFullScan(db, source) ==
    LET ts == db.tables_[source.name]
        live == SelectSeq(ts.recordInfos_, LAMBDA info : info.sequence \notin source.tombstones)
    IN  [i \in DOMAIN live |->
            LET rec == RecordAt(db.storage_, live[i].offset)
            IN  VTabRow(source, ts.tableDef, rec.data, rec.length,
                        live[i].sequence, live[i].offset)]

\* xFilter strategy 2 followed by xNext to the end: the entries the cursor
\* visits
VTabIndexEntries(db, source, colName, searchValue) ==
    LET ts == db.tables_[source.name]
        first == SqliteIndex_searchFirst(ts.indexes_[colName], searchValue,
                                         db.searchFirstPolicy)
    IN  IF IsPrimaryKey(ts.tableDef, colName) /\ first.hit
        THEN (IF first.entry.sequence \notin source.tombstones
              THEN <<first.entry>> ELSE <<>>)
        ELSE SelectSeq(SqliteIndex_search(ts.indexes_[colName], searchValue),
                       LAMBDA e : e.sequence \notin source.tombstones)

\* the statement run by the SQL executor over the virtual table: prepare
\* fails when no virtual table has the name; a column with an index is
\* planned as strategy 2 with the constraint omitted (xBestIndex), a
\* statement without WHERE as strategy 0. Every column of the schema has an
\* index
executeViaVTab(db, sql, params) ==
    LET engine == db.sqliteEngine_
        matches == {n \in DOMAIN engine.sources_ :
                        n \in engine.vtabs_ /\ ToLower(n) = ToLower(sql.table)}
    IN  IF matches = {} THEN [result |-> QueryResult(<<>>, <<>>), threw |-> TRUE]
        ELSE LET source == engine.sources_[CHOOSE n \in matches : TRUE]
                 ts == db.tables_[source.name]
                 columns == ColumnNames(ts.tableDef) \o VirtualColumns
             IN  IF sql.shape = "scan"
                 THEN [result |-> QueryResult(columns, VTabFullScan(db, source)),
                       threw |-> FALSE]
                 ELSE LET entries == VTabIndexEntries(db, source, ToLower(sql.column),
                                         valueFromSqlite(bindValue(params[1])))
                      IN  [result |-> QueryResult(columns,
                              [i \in DOMAIN entries |->
                                  LET rec == getDataAtOffset(db.storage_, entries[i].dataOffset)
                                  IN  VTabRow(source, ts.tableDef, rec.data, rec.length,
                                              entries[i].sequence, entries[i].dataOffset)]),
                            threw |-> FALSE]

\* the statement over a view SELECT .. FROM m1 UNION ALL .. FROM mk: the
\* executor flattens the view and runs the statement on each member in
\* order; the columns are those of the first member
UnionAll(first, rest) ==
    IF first.threw \/ rest.threw
    THEN [result |-> QueryResult(<<>>, <<>>), threw |-> TRUE]
    ELSE [result |-> QueryResult(first.result.columns,
                                 first.result.rows \o rest.result.rows),
          threw |-> FALSE]

RECURSIVE executeViaMembers(_, _, _, _)
executeViaMembers(db, members, sql, params) ==
    IF members = <<>> THEN [result |-> QueryResult(<<>>, <<>>), threw |-> FALSE]
    ELSE UnionAll(executeViaVTab(db, Sql(sql.shape, Head(members), sql.column), params),
                  executeViaMembers(db, Tail(members), sql, params))

\* the views of the catalog a table name of a statement resolves to
ViewsNamed(engine, tableName) ==
    {n \in DOMAIN engine.views_ : ToLower(n) = ToLower(tableName)}

\* SQLiteEngine::execute: the fast path, else the executor
SQLiteEngine_execute(db, sql, params) ==
    LET fast == tryFastPath(db, sql, params)
        db1 == [db EXCEPT !.sqliteEngine_ = fast.engine]
    IN  IF fast.hit \/ fast.threw
        THEN [db |-> db1, result |-> fast.result, threw |-> fast.threw, fastPath |-> TRUE]
        ELSE LET views == ViewsNamed(fast.engine, sql.table)
                 slow == IF views # {}
                         THEN executeViaMembers(db1,
                                  fast.engine.views_[CHOOSE n \in views : TRUE], sql, params)
                         ELSE executeViaVTab(db1, sql, params)
             IN  [db |-> db1, result |-> slow.result, threw |-> slow.threw,
                  fastPath |-> FALSE]

\* query: initializeSQLiteEngine, whose exception leaves the call, then
\* execute
QueryAfterInitialize(init, sql, params) ==
    IF init.threw
    THEN [db |-> init.db, result |-> QueryResult(<<>>, <<>>), threw |-> TRUE,
          fastPath |-> FALSE]
    ELSE SQLiteEngine_execute(init.db, sql, params)

FlatSQLDatabase_query(db, sql, params) ==
    QueryAfterInitialize(DbResult(FlatSQLDatabase_initializeSQLiteEngine(db), 0,
                                  initializeSQLiteEngineThrows(db)),
                         sql, params)

\* tryFastPath on a statement text: the parse, then the two branches
tryFastPathText(db, sql, params) ==
    LET parsed == ParseQuery(sql) IN
    IF ~parsed.isPointQuery /\ ~parsed.isFullScan THEN FastPathMiss(db.sqliteEngine_)
    ELSE tryFastPath(db, Sql(IF parsed.isFullScan THEN "scan" ELSE "point",
                             parsed.tableName, parsed.columnName), params)

(***************************************************************************)
(* SQLiteEngine's prepared-statement cache                                 *)
(***************************************************************************)
\* the cache's capacity; 100 in the source, scaled down
MAX_STMT_CACHE_SIZE == 2

\* a connection with no statement yet and an engine with an empty cache;
\* a statement handle is its position in statements, 0 is the null handle
NewStmtEngine == [stmtCache_ |-> EmptyMap, statements |-> <<>>]

\* sqlite3_finalize on every cached statement that is not null
FinalizeCached(engine) ==
    [i \in DOMAIN engine.statements |->
        IF \E k \in DOMAIN engine.stmtCache_ : engine.stmtCache_[k] = i
        THEN [engine.statements[i] EXCEPT !.finalized = TRUE]
        ELSE engine.statements[i]]

clearStmtCache(engine) ==
    [engine EXCEPT !.statements = FinalizeCached(engine), !.stmtCache_ = EmptyMap]

\* sqlite3_prepare_v2: an error, a null statement (a text with nothing to
\* compile) or a new statement of the connection
PrepareOutcomes == {"error", "null", "stmt"}

sqlite3_prepare_v2(engine, sql, outcome) ==
    IF outcome = "stmt"
    THEN [engine |-> [engine EXCEPT !.statements =
                          Append(@, [sql |-> sql, finalized |-> FALSE])],
          stmt |-> Len(engine.statements) + 1, ok |-> TRUE]
    ELSE [engine |-> engine, stmt |-> 0, ok |-> outcome = "null"]

\* the cache is never emptied when full
getOrPrepareStmt_neverEvicts(engine, sql, outcome) ==
    IF sql \in DOMAIN engine.stmtCache_
    THEN [engine |-> engine, stmt |-> engine.stmtCache_[sql], threw |-> FALSE, hit |-> TRUE]
    ELSE LET prepared == sqlite3_prepare_v2(engine, sql, outcome)
         IN  IF ~prepared.ok
             THEN [engine |-> prepared.engine, stmt |-> 0, threw |-> TRUE, hit |-> FALSE]
             ELSE [engine |-> [prepared.engine EXCEPT
                                   !.stmtCache_ = MapPut(@, sql, prepared.stmt)],
                   stmt |-> prepared.stmt, threw |-> FALSE, hit |-> FALSE]

getOrPrepareStmt(engine, sql, outcome) ==
    IF sql \in DOMAIN engine.stmtCache_
    THEN [engine |-> engine, stmt |-> engine.stmtCache_[sql], threw |-> FALSE, hit |-> TRUE]
    ELSE LET evicted == IF Cardinality(DOMAIN engine.stmtCache_) >= MAX_STMT_CACHE_SIZE
                        THEN clearStmtCache(engine) ELSE engine
             prepared == sqlite3_prepare_v2(evicted, sql, outcome)
         IN  IF ~prepared.ok
             THEN [engine |-> prepared.engine, stmt |-> 0, threw |-> TRUE, hit |-> FALSE]
             ELSE [engine |-> [prepared.engine EXCEPT
                                   !.stmtCache_ = MapPut(@, sql, prepared.stmt)],
                   stmt |-> prepared.stmt, threw |-> FALSE, hit |-> FALSE]


(***************************************************************************)
(* FlatBufferVTabModule::xBestIndex                                        *)
(***************************************************************************)
\* a constraint of sqlite3_index_info; iColumn -1 is the rowid
IndexConstraint(iColumn, op, usable) == [iColumn |-> iColumn, op |-> op, usable |-> usable]

RangeOps == {"GE", "GT", "LE", "LT"}

\* the virtual table as xBestIndex reads it: its columns and the names
\* that have an index object
VTabOf(tableDef, indexes) ==
    [tableDef |-> tableDef, indexes |-> indexes, sourceColumnIndex |-> Len(tableDef.columns)]

NoUsage == [argvIndex |-> 0, omit |-> 0]

\* the loop body for constraint i; p carries idxNum, estimatedCost,
\* argvIndex and the usage array. Costs are in units (the full scan is
\* 1000000)
BestIndexStep(vtab, p, i, constraint) ==
    LET colIdx == constraint.iColumn
        used(omit) == [p.aConstraintUsage EXCEPT ![i] = [argvIndex |-> p.argvIndex, omit |-> omit]]
    IN  IF ~constraint.usable THEN p
        ELSE IF colIdx = -1 /\ constraint.op = "EQ"
        THEN [idxNum |-> 1, estimatedCost |-> 1, argvIndex |-> p.argvIndex + 1,
              aConstraintUsage |-> used(1)]
        ELSE IF colIdx >= Len(vtab.tableDef.columns)
        THEN (IF colIdx = vtab.sourceColumnIndex /\ constraint.op = "EQ"
              THEN [p EXCEPT !.argvIndex = @ + 1, !.aConstraintUsage = used(1)]
              ELSE p)
        ELSE IF colIdx < 0 \/ vtab.tableDef.columns[colIdx + 1].name \notin vtab.indexes
        THEN p
        ELSE IF constraint.op = "EQ"
        THEN [idxNum |-> 2 + colIdx * 256, estimatedCost |-> 10,
              argvIndex |-> p.argvIndex + 1, aConstraintUsage |-> used(1)]
        ELSE IF constraint.op \in RangeOps
        THEN [idxNum |-> IF p.idxNum % 256 < 2 THEN 3 + colIdx * 256 ELSE p.idxNum,
              estimatedCost |-> 100,
              argvIndex |-> p.argvIndex + 1, aConstraintUsage |-> used(0)]
        ELSE p

RECURSIVE BestIndexLoop(_, _, _, _)
BestIndexLoop(vtab, aConstraint, i, p) ==
    IF i > Len(aConstraint) THEN p
    ELSE BestIndexLoop(vtab, aConstraint, i + 1, BestIndexStep(vtab, p, i, aConstraint[i]))

xBestIndex(vtab, aConstraint) ==
    BestIndexLoop(vtab, aConstraint, 1,
                  [idxNum |-> 0, estimatedCost |-> 1000000, argvIndex |-> 1,
                   aConstraintUsage |-> [i \in DOMAIN aConstraint |-> NoUsage]])

(***************************************************************************)
(* The cursor of the virtual table: xOpen, xFilter, xNext, xEof            *)
(***************************************************************************)
\* xOpen: a cursor on the virtual table of a source; currentData is the
\* position in the log the pointer refers to, -1 for the null pointer
xOpen(vtab) ==
    [vtab |-> vtab, currentOffset |-> 0, currentSequence |-> 0, currentData |-> -1,
     currentLength |-> 0, atEof |-> TRUE, scanType |-> "FullScan",
     indexResults |-> <<>>, indexPosition |-> 0,
     scanFileIndex |-> 0, scanFileCount |-> 0, hasTombstones |-> FALSE]

\* what a cursor call leaves: the cursor, and whether an exception left it
CursorResult(c, raised) == [c |-> c, raised |-> raised]

AtEof(c) == CursorResult([c EXCEPT !.atEof = TRUE], FALSE)

\* all(): every entry in ascending key order (spec section 4.C)
RECURSIVE SqliteIndex_all(_)
SqliteIndex_all(ix) ==
    IF ix = <<>> THEN <<>>
    ELSE LET e == ix[Len(ix)]
             sorted == SqliteIndex_all(SubSeq(ix, 1, Len(ix) - 1))
             before == SelectSeq(sorted, LAMBDA x : compareValues(x.key, e.key) <= 0)
             after == SelectSeq(sorted, LAMBDA x : compareValues(x.key, e.key) > 0)
         IN  before \o <<e>> \o after

\* sqlite3_value_int64 of the values handed to xFilter
sqlite3_value_int64(val) == IF val.type = "INTEGER" THEN val.v ELSE 0

\* the inlined read of the full scan: the cursor stands on the record of
\* info, its length read from the buffer at the record's offset
ScanTo(c, d, info) ==
    [c EXCEPT !.currentOffset = info.offset, !.currentSequence = info.sequence,
              !.currentData = info.offset + SIZE_PREFIX_LENGTH,
              !.currentLength = RecordAt(d.storage_, info.offset).length]

\* the read of the lookups: getDataAtOffset, whose exception leaves the
\* call; the pointer it returns is never null
LookupTo(c, d, offset, sequence) ==
    LET rec == getDataAtOffset(d.storage_, offset) IN
    IF rec.threw THEN CursorResult(c, TRUE)
    ELSE CursorResult([c EXCEPT !.currentOffset = offset, !.currentSequence = sequence,
                                !.currentData = offset + SIZE_PREFIX_LENGTH,
                                !.currentLength = rec.length], FALSE)

\* the position of the first record from index i on whose sequence has no
\* tombstone, or the vector's size
RECURSIVE SkipTombstoned(_, _, _)
SkipTombstoned(infos, tombstones, i) ==
    IF i >= Len(infos) \/ infos[i + 1].sequence \notin tombstones THEN i
    ELSE SkipTombstoned(infos, tombstones, i + 1)

\* the index results without the entries whose sequence has a tombstone
FilterTombstoned(entries, tombstones) ==
    SelectSeq(entries, LAMBDA entry : entry.sequence \notin tombstones)

\* the cursor on the first of its index results
FirstIndexResult(c, d) ==
    IF c.indexResults = <<>> THEN AtEof(c)
    ELSE LookupTo(c, d, c.indexResults[1].dataOffset, c.indexResults[1].sequence)

xFilter_FullScan(c, d, ts, tombstones) ==
    LET first == SkipTombstoned(ts.recordInfos_, tombstones, 0)
        c1 == [c EXCEPT !.scanType = "FullScan", !.scanFileCount = Len(ts.recordInfos_),
                        !.hasTombstones = tombstones # {}, !.scanFileIndex = first]
    IN  IF first >= Len(ts.recordInfos_) THEN AtEof(c1)
        ELSE CursorResult(ScanTo(c1, d, ts.recordInfos_[first + 1]), FALSE)

xFilter_RowidLookup(c, d, tombstones, argv) ==
    LET c1 == [c EXCEPT !.scanType = "RowidLookup"]
        rowid == sqlite3_value_int64(argv[1])
    IN  IF Len(argv) < 1 THEN AtEof(c1)
        ELSE IF rowid \in tombstones THEN AtEof(c1)
        ELSE IF rowid \notin DOMAIN d.storage_.sequenceToOffset_ THEN AtEof(c1)
        ELSE LookupTo(c1, d, d.storage_.sequenceToOffset_[rowid], rowid)

xFilter_IndexEquality(c, d, ts, tombstones, colIdx, argv) ==
    IF Len(argv) < 1 \/ colIdx < 0 \/ colIdx >= Len(ts.tableDef.columns) THEN AtEof(c)
    ELSE LET colName == ts.tableDef.columns[colIdx + 1].name IN
         IF colName \notin DOMAIN ts.indexes_ THEN AtEof(c)
         ELSE LET searchValue == valueFromSqlite(argv[1])
                  single == SqliteIndex_searchFirst(ts.indexes_[colName], searchValue,
                                                    d.searchFirstPolicy)
              IN  IF ts.tableDef.columns[colIdx + 1].primaryKey /\ single.hit
                  THEN (IF single.entry.sequence \notin tombstones
                        THEN LookupTo([c EXCEPT !.scanType = "IndexSingleLookup"], d,
                                      single.entry.dataOffset, single.entry.sequence)
                        ELSE AtEof(c))
                  ELSE FirstIndexResult(
                           [c EXCEPT !.scanType = "IndexEquality",
                                     !.indexResults = FilterTombstoned(
                                         SqliteIndex_search(ts.indexes_[colName], searchValue),
                                         tombstones)], d)

xFilter_IndexRange(c, d, ts, tombstones, colIdx) ==
    LET c1 == [c EXCEPT !.scanType = "IndexRange"] IN
    IF colIdx < 0 \/ colIdx >= Len(ts.tableDef.columns) THEN AtEof(c1)
    ELSE LET colName == ts.tableDef.columns[colIdx + 1].name IN
         IF colName \notin DOMAIN ts.indexes_ THEN AtEof(c1)
         ELSE FirstIndexResult(
                  [c1 EXCEPT !.indexResults =
                       FilterTombstoned(SqliteIndex_all(ts.indexes_[colName]), tombstones)], d)

\* xFilter(cursor, idxNum, argv) on database d
xFilter(c, d, idxNum, argv) ==
    LET ts == d.tables_[c.vtab]
        tombstones == d.sqliteEngine_.sources_[c.vtab].tombstones
        reset == [c EXCEPT !.atEof = FALSE, !.indexResults = <<>>, !.indexPosition = 0,
                           !.currentData = -1, !.currentLength = 0]
        strategy == idxNum % 256
        colIdx == idxNum \div 256
    IN  IF strategy = 0 THEN xFilter_FullScan(reset, d, ts, tombstones)
        ELSE IF strategy = 1 THEN xFilter_RowidLookup(reset, d, tombstones, argv)
        ELSE IF strategy = 2 THEN xFilter_IndexEquality(reset, d, ts, tombstones, colIdx, argv)
        ELSE IF strategy = 3 THEN xFilter_IndexRange(reset, d, ts, tombstones, colIdx)
        ELSE AtEof(reset)

\* mutant: the scan never looks at the tombstones
xNext_ignoresTombstones(c, d) ==
    LET ts == d.tables_[c.vtab]
        next == c.scanFileIndex + 1
        c1 == [c EXCEPT !.scanFileIndex = next]
    IN  IF c.scanType = "FullScan"
        THEN (IF next < c.scanFileCount
              THEN CursorResult(ScanTo(c1, d, ts.recordInfos_[next + 1]), FALSE)
              ELSE AtEof(c1))
        ELSE AtEof(c)

\* xNext(cursor) on database d
xNext(c, d) ==
    LET ts == d.tables_[c.vtab]
        tombstones == d.sqliteEngine_.sources_[c.vtab].tombstones
    IN  IF c.scanType = "FullScan"
        THEN LET next == IF c.hasTombstones
                         THEN SkipTombstoned(SubSeq(ts.recordInfos_, 1, c.scanFileCount),
                                             tombstones, c.scanFileIndex + 1)
                         ELSE c.scanFileIndex + 1
                 c1 == [c EXCEPT !.scanFileIndex = next]
             IN  IF next < c.scanFileCount
                 THEN CursorResult(ScanTo(c1, d, ts.recordInfos_[next + 1]), FALSE)
                 ELSE AtEof(c1)
        ELSE IF c.scanType \in {"RowidLookup", "IndexSingleLookup"} THEN AtEof(c)
        ELSE LET c1 == [c EXCEPT !.indexPosition = @ + 1] IN
             IF c1.indexPosition >= Len(c.indexResults) THEN AtEof(c1)
             ELSE LookupTo(c1, d, c.indexResults[c1.indexPosition + 1].dataOffset,
                           c.indexResults[c1.indexPosition + 1].sequence)

xEof(c) == c.atEof

(***************************************************************************)
(* State                                                                   *)
(***************************************************************************)
VARIABLES
    store,       \* the StreamingFlatBufferStore object
    hung,        \* a call entered the endless growth loop and never returned
    call,        \* the last call made on the store: operation, input, outcome
    singleCalls, \* number of successful single-record ingests so far
    singleOnly,  \* no other call has changed the store so far
    stream,      \* the stream S under examination (single-call scenarios)
    splitAt,     \* the split point k of S
    pc,          \* position of the scenario
    store0,      \* the store when the scenario's first call on S was made
    fired,       \* callbacks fired by the scenario's calls on S, in order
    tree,        \* a BTree object
    inserted,    \* the entries handed to tree's insert so far, in call order
    found,       \* the search made on tree since it last changed: key and result
    db,          \* a FlatSQLDatabase object with its engine and store
    lastQuery,   \* the query made on db since it last changed, with its result
    hiding,      \* a row a query returned, then deleted, then restored
    routed,      \* the records db's ingests handed to a table, in order
    stmts,       \* an engine's statement cache and its connection's statements
    prepared,    \* the last statement asked of the cache: text, outcome, cache before
    idxInfo,     \* a sqlite3_index_info: the constraints and xBestIndex's output
    cursor,      \* a FlatBufferCursor of a virtual table of db
    yielded,     \* the rows cursor stood on since its xFilter, in order
    compared,    \* three Values and what compareValues returned for their pairs
    textQuery    \* the last statement given to the engine as text: was it fast-pathed

storeVars == <<store, hung, call, singleCalls, singleOnly>>
streamVars == <<stream, splitAt, pc, store0, fired>>
btreeVars == <<tree, inserted, found>>
dbVars == <<db, lastQuery, hiding, routed>>
auxVars == <<compared, textQuery>>
vtabVars == <<stmts, prepared, idxInfo, cursor, yielded, auxVars>>
vars == <<store, hung, call, singleCalls, singleOnly, stream, splitAt, pc, store0, fired,
          tree, inserted, found, db, lastQuery, hiding, routed,
          stmts, prepared, idxInfo, cursor, yielded, compared, textQuery>>

NoSearch ==
    [searched |-> FALSE, ranged |-> FALSE, key |-> NullValue, maxKey |-> NullValue,
     results |-> <<>>]

\* the objects a specification does not exercise stay as constructed
StoreIdle ==
    /\ store = NewStore(0)
    /\ hung = FALSE
    /\ call = [op |-> "none", input |-> <<>>, ret |-> 0, records |-> 0,
               callbacks |-> <<>>, threw |-> FALSE]
    /\ singleCalls = 0
    /\ singleOnly = TRUE
    /\ stream = <<>>
    /\ splitAt = 0
    /\ store0 = store
    /\ fired = <<>>

BTreeIdle ==
    /\ tree = NewBTree(3)
    /\ inserted = <<>>
    /\ found = NoSearch

NoQuery ==
    [asked |-> FALSE, sql |-> Sql("scan", "", ""), params |-> <<>>,
     result |-> QueryResult(<<>>, <<>>), threw |-> FALSE, fastPath |-> FALSE,
     executor |-> [result |-> QueryResult(<<>>, <<>>), threw |-> FALSE]]

NoHiding ==
    [phase |-> "none", sql |-> Sql("scan", "", ""), params |-> <<>>, table |-> "",
     sequence |-> 0, row |-> <<>>, hidden |-> FALSE]

DbIdle ==
    /\ db = NewDatabase("oldest")
    /\ lastQuery = NoQuery
    /\ hiding = NoHiding
    /\ routed = <<>>

\* no cursor is open
NoCursor ==
    [open |-> FALSE, filtered |-> FALSE, raised |-> FALSE, pastEof |-> 0,
     idxNum |-> 0, argv |-> <<>>, c |-> xOpen("")]

NoCompare == [done |-> FALSE]

NoTextQuery == [asked |-> FALSE, sql |-> "", params |-> <<>>, fastPath |-> FALSE]

AuxIdle ==
    /\ compared = NoCompare
    /\ textQuery = NoTextQuery

NoPrepare ==
    [asked |-> FALSE, op |-> "none", sql |-> "", outcome |-> "stmt",
     before |-> NewStmtEngine, stmt |-> 0, threw |-> FALSE, hit |-> FALSE]

NoIndexInfo ==
    [vtab |-> VTabOf(UserTableDef, {}), aConstraint |-> <<>>, aConstraintUsage |-> <<>>,
     idxNum |-> 0, estimatedCost |-> 0, planned |-> FALSE]

VTabIdle ==
    /\ stmts = NewStmtEngine
    /\ prepared = NoPrepare
    /\ idxInfo = NoIndexInfo
    /\ cursor = NoCursor
    /\ yielded = <<>>
    /\ AuxIdle

NoCall == [op |-> "none", input |-> <<>>, ret |-> 0, records |-> 0,
           callbacks |-> <<>>, threw |-> FALSE]

CallRecord(op, input, r) ==
    [op |-> op, input |-> input, ret |-> r.ret, records |-> r.records,
     callbacks |-> r.callbacks, threw |-> r.threw]

(***************************************************************************)
(* Spec: one store, any sequence of calls                                  *)
(***************************************************************************)
Init ==
    /\ store \in {NewStore(c) : c \in 0..MaxInitialCapacity}
    /\ hung = FALSE
    /\ call = NoCall
    /\ singleCalls = 0
    /\ singleOnly = TRUE
    /\ stream = <<>>
    /\ splitAt = 0
    /\ pc = "calls"
    /\ store0 = store
    /\ fired = <<>>
    /\ BTreeIdle
    /\ DbIdle
    /\ VTabIdle

CanCall(input) ==
    /\ ~hung
    /\ store.nextSequence_ <= MaxSeq
    /\ store.writeOffset_ + Len(input) <= MaxLog

Ingest ==
    \E input \in CallInputs :
        /\ CanCall(input)
        /\ LET r == ingest(store, input) IN
            /\ store' = r.st
            /\ hung' = r.diverged
            /\ call' = CallRecord("ingest", input, r)
            /\ singleOnly' = (singleOnly /\ r.st = store)
            /\ UNCHANGED singleCalls
        /\ UNCHANGED <<streamVars, btreeVars, dbVars, vtabVars>>

IngestOne ==
    \E input \in CallInputs :
        /\ CanCall(input)
        /\ LET r == ingestOne(store, input) IN
            /\ store' = r.st
            /\ hung' = r.diverged
            /\ call' = CallRecord("ingestOne", input, r)
            /\ singleCalls' = IF r.threw \/ r.diverged THEN singleCalls ELSE singleCalls + 1
            /\ UNCHANGED singleOnly
        /\ UNCHANGED <<streamVars, btreeVars, dbVars, vtabVars>>

IngestFlatBuffer ==
    \E input \in CallInputs :
        /\ CanCall(input)
        /\ store.writeOffset_ + Len(input) + SIZE_PREFIX_LENGTH <= MaxLog
        /\ LET r == ingestFlatBuffer(store, input) IN
            /\ store' = r.st
            /\ hung' = r.diverged
            /\ call' = CallRecord("ingestFlatBuffer", input, r)
            /\ singleCalls' = IF r.diverged THEN singleCalls ELSE singleCalls + 1
            /\ UNCHANGED singleOnly
        /\ UNCHANGED <<streamVars, btreeVars, dbVars, vtabVars>>

LoadAndRebuild ==
    \E input \in CallInputs :
        /\ CanCall(input)
        /\ LET r == loadAndRebuild(store, input) IN
            /\ store' = r.st
            /\ hung' = r.diverged
            /\ call' = CallRecord("loadAndRebuild", input, r)
            /\ singleOnly' = (singleOnly /\ r.st = store)
            /\ UNCHANGED singleCalls
        /\ UNCHANGED <<streamVars, btreeVars, dbVars, vtabVars>>

Next == Ingest \/ IngestOne \/ IngestFlatBuffer \/ LoadAndRebuild

Spec == Init /\ [][Next]_vars

(***************************************************************************)
(* SpecStream: one stream S, handed to a store whole, in two parts, or to  *)
(* loadAndRebuild                                                          *)
(***************************************************************************)
\* payload of the record a store may already hold when S arrives
SeedPayload == <<1>>

InitStream ==
    /\ store \in {NewStore(c) : c \in 0..MaxInitialCapacity}
    /\ hung = FALSE
    /\ call = NoCall
    /\ singleCalls = 0
    /\ singleOnly = TRUE
    /\ stream \in ByteStrings
    /\ splitAt \in 0..Len(stream)
    /\ pc = "start"
    /\ store0 = store
    /\ fired = <<>>
    /\ BTreeIdle
    /\ DbIdle
    /\ VTabIdle

\* an earlier ingestFlatBuffer call: S arrives at a store that is not fresh
StreamSeed ==
    /\ pc = "start" /\ ~hung
    /\ store.recordCount_ = 0
    /\ LET r == ingestFlatBuffer(store, SeedPayload) IN
        /\ store' = r.st
        /\ store0' = r.st
        /\ hung' = r.diverged
        /\ call' = CallRecord("ingestFlatBuffer", SeedPayload, r)
    /\ UNCHANGED <<singleCalls, singleOnly, stream, splitAt, pc, fired, btreeVars, dbVars, vtabVars>>

\* ingest(S)
StreamIngestWhole ==
    /\ pc = "start" /\ ~hung
    /\ LET r == ingest(store, stream) IN
        /\ store' = r.st
        /\ hung' = r.diverged
        /\ call' = CallRecord("ingest", stream, r)
        /\ fired' = r.callbacks
    /\ pc' = "whole"
    /\ UNCHANGED <<singleCalls, singleOnly, stream, splitAt, store0, btreeVars, dbVars, vtabVars>>

\* ingest(S[0..k))
StreamIngestFirst ==
    /\ pc = "start" /\ ~hung
    /\ LET part == SubSeq(stream, 1, splitAt)
           r == ingest(store, part) IN
        /\ store' = r.st
        /\ hung' = r.diverged
        /\ call' = CallRecord("ingest", part, r)
        /\ fired' = r.callbacks
    /\ pc' = "first"
    /\ UNCHANGED <<singleCalls, singleOnly, stream, splitAt, store0, btreeVars, dbVars, vtabVars>>

\* ingest(what the first call left of S[0..k), followed by S[k..))
StreamIngestRest ==
    /\ pc = "first" /\ ~hung
    /\ LET part == SubSeq(stream, call.ret + 1, splitAt) \o
                   SubSeq(stream, splitAt + 1, Len(stream))
           r == ingest(store, part) IN
        /\ store' = r.st
        /\ hung' = r.diverged
        /\ call' = CallRecord("ingest", part, r)
        /\ fired' = fired \o r.callbacks
    /\ pc' = "rest"
    /\ UNCHANGED <<singleCalls, singleOnly, stream, splitAt, store0, btreeVars, dbVars, vtabVars>>

\* loadAndRebuild(S)
StreamLoad ==
    /\ pc = "start" /\ ~hung
    /\ LET r == loadAndRebuild(store, stream) IN
        /\ store' = r.st
        /\ hung' = r.diverged
        /\ call' = CallRecord("loadAndRebuild", stream, r)
        /\ fired' = r.callbacks
    /\ pc' = "loaded"
    /\ UNCHANGED <<singleCalls, singleOnly, stream, splitAt, store0, btreeVars, dbVars, vtabVars>>

NextStream ==
    StreamSeed \/ StreamIngestWhole \/ StreamIngestFirst \/ StreamIngestRest \/ StreamLoad

SpecStream == InitStream /\ [][NextStream]_vars

(***************************************************************************)
(* SpecBTree: one BTree of any order, any sequence of insert, search and   *)
(* clear calls                                                             *)
(***************************************************************************)
\* orders below 2 make splitChild index an empty vector
BTreeOrders == 2..MaxOrder

BTreeKeys == {NullValue, Int32Value(1), Int32Value(2)}

InitBTree ==
    /\ tree \in {NewBTree(o) : o \in BTreeOrders}
    /\ inserted = <<>>
    /\ found = NoSearch
    /\ StoreIdle
    /\ DbIdle
    /\ VTabIdle
    /\ pc = "btree"

\* insert(key, offset, length, sequence): the caller numbers its entries
BTreeInsert ==
    \E key \in BTreeKeys :
        /\ Len(inserted) < MaxInserts
        /\ LET sequence == Len(inserted) + 1 IN
            /\ tree' = insert(tree, key, 0, 1, sequence)
            /\ inserted' = Append(inserted, IndexEntry(key, 0, 1, sequence))
        /\ found' = NoSearch
        /\ UNCHANGED <<storeVars, streamVars, dbVars, vtabVars>>

BTreeSearch ==
    \E key \in BTreeKeys :
        /\ found' = [NoSearch EXCEPT !.searched = TRUE, !.key = key,
                                      !.results = search(tree, key)]
        /\ UNCHANGED <<tree, inserted, storeVars, streamVars, dbVars, vtabVars>>

\* range(minKey, maxKey) with minKey <= maxKey
BTreeRange ==
    \E minKey \in BTreeKeys, maxKey \in BTreeKeys :
        /\ compareValues(minKey, maxKey) <= 0
        /\ found' = [NoSearch EXCEPT !.ranged = TRUE, !.key = minKey, !.maxKey = maxKey,
                                      !.results = range(tree, minKey, maxKey)]
        /\ UNCHANGED <<tree, inserted, storeVars, streamVars, dbVars, vtabVars>>

BTreeClear ==
    /\ inserted # <<>>
    /\ tree' = clear(tree)
    /\ inserted' = <<>>
    /\ found' = NoSearch
    /\ UNCHANGED <<storeVars, streamVars, dbVars, vtabVars>>

NextBTree == BTreeInsert \/ BTreeSearch \/ BTreeRange \/ BTreeClear

SpecBTree == InitBTree /\ [][NextBTree]_vars

(***************************************************************************)
(* SpecDb: one FlatSQLDatabase over the schema, any sequence of            *)
(* registrations, extractor installations, ingests, deletions and queries  *)
(***************************************************************************)
BaseTables == {SchemaTables[i].name : i \in DOMAIN SchemaTables}

SourceNames == {"s1"}

\* the file identifier the application binds to a table
BoundFileIds == {FileIdUser}

\* the names statements use: the tables and their source twins
QueryTables == BaseTables \cup {getSourceTableName(t, s) : t \in BaseTables, s \in SourceNames}

\* SELECT * FROM T, and SELECT * FROM T WHERE C = ? with its parameter
DbQueries ==
    {[sql |-> Sql("scan", t, ""), params |-> <<>>] : t \in QueryTables} \cup
    {[sql |-> Sql("point", t, "id"), params |-> <<Int32Value(1)>>] : t \in QueryTables} \cup
    {[sql |-> Sql("point", t, "name"), params |-> <<StringValue(<<1>>)>>] : t \in QueryTables}

\* a record framed for ingest(): size prefix, then the payload
Framed(payload) == writeLE32(Len(payload)) \o payload

\* the table whose recordInfos_ gained the callback's record in the call
RoutedTable(before, after, cb) ==
    {t \in DOMAIN after.tables_ :
        LET old == IF t \in DOMAIN before.tables_
                   THEN Len(before.tables_[t].recordInfos_) ELSE 0
            infos == after.tables_[t].recordInfos_
        IN  \E j \in (old + 1)..Len(infos) : infos[j].sequence = cb.sequence}

\* the records a call handed to tables, each with the extractor the table
\* had when the call was made
RECURSIVE RoutedBy(_, _, _)
RoutedBy(before, after, cbs) ==
    IF cbs = <<>> THEN <<>>
    ELSE LET cb == Head(cbs)
             to == RoutedTable(before, after, cb)
             rest == RoutedBy(before, after, Tail(cbs))
         IN  IF to = {} THEN rest
             ELSE LET t == CHOOSE t \in to : TRUE
                  IN  << [table |-> t, offset |-> cb.offset, length |-> cb.length,
                          sequence |-> cb.sequence, data |-> cb.data,
                          extractor |-> before.tables_[t].fieldExtractor_] >> \o rest

\* _rowid of a result row: the third column from the end
RowId(row) == row[Len(row) - 2].v

InitDb ==
    /\ db \in {NewDatabase(policy) : policy \in SearchFirstPolicies}
    /\ lastQuery = NoQuery
    /\ hiding = NoHiding
    /\ routed = <<>>
    /\ StoreIdle
    /\ BTreeIdle
    /\ VTabIdle
    /\ pc = "db"

DbRegisterFileId ==
    \E fileId \in BoundFileIds, tableName \in BaseTables :
        /\ db' = FlatSQLDatabase_registerFileId(db, fileId, tableName).db
        /\ lastQuery' = NoQuery
        /\ hiding' = NoHiding
        /\ UNCHANGED <<routed, storeVars, streamVars, btreeVars, vtabVars>>

DbSetFieldExtractor ==
    \E tableName \in DOMAIN db.tables_, extractor \in Extractors :
        /\ db' = FlatSQLDatabase_setFieldExtractor(db, tableName, extractor).db
        /\ lastQuery' = NoQuery
        /\ hiding' = NoHiding
        /\ UNCHANGED <<routed, storeVars, streamVars, btreeVars, vtabVars>>

DbRegisterSource ==
    \E sourceName \in SourceNames :
        /\ db' = FlatSQLDatabase_registerSource(db, sourceName).db
        /\ lastQuery' = NoQuery
        /\ hiding' = NoHiding
        /\ UNCHANGED <<routed, storeVars, streamVars, btreeVars, vtabVars>>

DbSetEncryptionKey ==
    /\ db' = FlatSQLDatabase_setEncryptionKey(db)
    /\ lastQuery' = NoQuery
    /\ hiding' = NoHiding
    /\ UNCHANGED <<routed, storeVars, streamVars, btreeVars, vtabVars>>

\* what every ingest leaves behind
DbAfterIngest(r, callbacks) ==
    /\ db' = r.db
    /\ routed' = routed \o RoutedBy(db, r.db, callbacks)
    /\ lastQuery' = NoQuery
    /\ hiding' = NoHiding
    /\ UNCHANGED <<storeVars, streamVars, btreeVars, vtabVars>>

DbIngest ==
    \E payload \in Payloads :
        /\ db.storage_.nextSequence_ <= MaxDbRecords
        /\ DbAfterIngest(FlatSQLDatabase_ingest(db, Framed(payload)),
                         ingest(db.storage_, Framed(payload)).callbacks)

DbIngestOne ==
    \E payload \in Payloads :
        /\ db.storage_.nextSequence_ <= MaxDbRecords
        /\ DbAfterIngest(FlatSQLDatabase_ingestOne(db, payload),
                         ingestFlatBuffer(db.storage_, payload).callbacks)

DbIngestWithSource ==
    \E payload \in Payloads, source \in SourceNames :
        /\ db.storage_.nextSequence_ <= MaxDbRecords
        /\ DbAfterIngest(FlatSQLDatabase_ingestWithSource(db, Framed(payload), source),
                         ingest(db.storage_, Framed(payload)).callbacks)

DbIngestOneWithSource ==
    \E payload \in Payloads, source \in SourceNames :
        /\ db.storage_.nextSequence_ <= MaxDbRecords
        /\ DbAfterIngest(FlatSQLDatabase_ingestOneWithSource(db, payload, source),
                         ingestFlatBuffer(db.storage_, payload).callbacks)

\* markDeleted(T, seq); hiding starts when the query just made was a point
\* query on T that returned the row with _rowid = seq
\* hiding notes a markDeleted that raised until the next call
DbMarkDeleted ==
    \E tableName \in DOMAIN db.tables_, sequence \in 1..(db.storage_.nextSequence_ - 1) :
        LET r == FlatSQLDatabase_markDeleted(db, tableName, sequence)
            rows == lastQuery.result.rows
            shown == {i \in DOMAIN rows : RowId(rows[i]) = sequence}
        IN  /\ db' = r.db
            /\ hiding' =
                IF r.threw
                THEN [NoHiding EXCEPT !.phase = "raised", !.table = tableName,
                                      !.sequence = sequence]
                ELSE
                IF /\ ~r.threw
                   /\ lastQuery.asked /\ ~lastQuery.threw
                   /\ lastQuery.sql.shape = "point"
                   /\ lastQuery.sql.table = tableName
                   /\ shown # {}
                THEN [phase |-> "deleted", sql |-> lastQuery.sql, params |-> lastQuery.params,
                      table |-> tableName, sequence |-> sequence,
                      row |-> rows[CHOOSE i \in shown : TRUE], hidden |-> FALSE]
                ELSE NoHiding
            /\ lastQuery' = NoQuery
            /\ UNCHANGED <<routed, storeVars, streamVars, btreeVars, vtabVars>>

DbClearTombstones ==
    \E tableName \in DOMAIN db.tables_ :
        /\ db' = FlatSQLDatabase_clearTombstones(db, tableName)
        /\ hiding' = IF hiding.phase = "deleted" /\ hiding.table = tableName
                     THEN [hiding EXCEPT !.phase = "cleared"]
                     ELSE NoHiding
        /\ lastQuery' = NoQuery
        /\ UNCHANGED <<routed, storeVars, streamVars, btreeVars, vtabVars>>

\* query(sql, params); executor is what the SQL executor returns for the
\* same statement on the same database. hiding notes that the deleted row
\* was missing from the answer to its query
\* the state after query q returned r
DbQueryReturned(q, r) ==
        /\ q.sql.table \in DOMAIN db.tables_
        /\ db' = r.db
        /\ lastQuery' = [asked |-> TRUE, sql |-> q.sql, params |-> q.params,
                         result |-> r.result, threw |-> r.threw, fastPath |-> r.fastPath,
                         executor |-> executeViaVTab(r.db, q.sql, q.params)]
        /\ hiding' = IF /\ hiding.phase = "deleted"
                        /\ q.sql = hiding.sql /\ q.params = hiding.params
                        /\ ~r.threw
                        /\ \A i \in DOMAIN r.result.rows :
                                RowId(r.result.rows[i]) # hiding.sequence
                     THEN [hiding EXCEPT !.hidden = TRUE]
                     ELSE IF hiding.phase = "raised" THEN NoHiding ELSE hiding
        /\ UNCHANGED <<routed, storeVars, streamVars, btreeVars, vtabVars>>

DbQuery ==
    \E q \in DbQueries : DbQueryReturned(q, FlatSQLDatabase_query(db, q.sql, q.params))

NextDb ==
    \/ DbRegisterFileId \/ DbSetFieldExtractor \/ DbSetEncryptionKey
    \/ DbIngest \/ DbIngestOne
    \/ DbMarkDeleted \/ DbClearTombstones \/ DbQuery

SpecDb == InitDb /\ [][NextDb]_vars

(***************************************************************************)
(* SpecDbSources: a database that is set up (file identifier bound, source *)
(* registered) while its store is empty, then takes plain and              *)
(* source-tagged ingests, deletions and queries                            *)
(***************************************************************************)
DbSetupFileId == db.storage_.recordCount_ = 0 /\ DbRegisterFileId

DbSetupSource == db.storage_.recordCount_ = 0 /\ DbRegisterSource

NextDbSources ==
    \/ DbSetupFileId \/ DbSetupSource
    \/ DbIngestOne \/ DbIngestWithSource \/ DbIngestOneWithSource
    \/ DbMarkDeleted \/ DbQuery

SpecDbSources == InitDb /\ [][NextDbSources]_vars

\* a database with the same schema, file-id bindings and extractors, loaded
\* from the export of db
(***************************************************************************)
(* SpecBinding: a database of two tables; file identifiers are bound to    *)
(* any table, in any order, between ingests, and tables are scanned        *)
(***************************************************************************)
InitBinding ==
    /\ db \in {NewDatabaseOf(BindingSchemaTables, policy) : policy \in SearchFirstPolicies}
    /\ lastQuery = NoQuery
    /\ hiding = NoHiding
    /\ routed = <<>>
    /\ StoreIdle
    /\ BTreeIdle
    /\ VTabIdle
    /\ pc = "db"

BindRegisterFileId ==
    \E fileId \in FileIds, tableName \in DOMAIN db.tables_ :
        /\ db' = FlatSQLDatabase_registerFileId(db, fileId, tableName).db
        /\ lastQuery' = NoQuery
        /\ hiding' = NoHiding
        /\ UNCHANGED <<routed, storeVars, streamVars, btreeVars, vtabVars>>

\* TableStore::scanAll of one table; the records are kept as the rows of the
\* last query
BindScanAll ==
    \E tableName \in DOMAIN db.tables_ :
        /\ lastQuery' = [NoQuery EXCEPT
                            !.asked = TRUE,
                            !.sql = Sql("scanAll", tableName, ""),
                            !.result = QueryResult(<<>>,
                                TableStore_scanAll(db.tables_[tableName], db.storage_))]
        /\ UNCHANGED <<db, hiding, routed, storeVars, streamVars, btreeVars, vtabVars>>

NextBinding == BindRegisterFileId \/ DbIngestOne \/ BindScanAll

SpecBinding == InitBinding /\ [][NextBinding]_vars

(***************************************************************************)
(* SpecViews: a database with the sources A and B; file identifier,        *)
(* extractor, sources and unified views are set up in any order between    *)
(* source-tagged ingests and scans of the base table                       *)
(***************************************************************************)
ViewSourceNames == {"A", "B"}

ViewRegisterSource ==
    \E sourceName \in ViewSourceNames :
        /\ ~FlatSQLDatabase_registerSource(db, sourceName).threw
        /\ db' = FlatSQLDatabase_registerSource(db, sourceName).db
        /\ lastQuery' = NoQuery
        /\ UNCHANGED <<hiding, routed, storeVars, streamVars, btreeVars, vtabVars>>

ViewSetFieldExtractor ==
    \E tableName \in BaseTables, extractor \in Extractors :
        /\ db' = FlatSQLDatabase_setFieldExtractor(db, tableName, extractor).db
        /\ db' # db
        /\ lastQuery' = NoQuery
        /\ UNCHANGED <<hiding, routed, storeVars, streamVars, btreeVars, vtabVars>>

ViewCreateUnifiedViews ==
    /\ db' = FlatSQLDatabase_createUnifiedViews(db).db
    /\ db' # db
    /\ lastQuery' = NoQuery
    /\ UNCHANGED <<hiding, routed, storeVars, streamVars, btreeVars, vtabVars>>

ViewIngestOneWithSource ==
    \E payload \in Payloads, source \in ViewSourceNames :
        /\ db.storage_.nextSequence_ <= MaxDbRecords
        /\ DbAfterIngest(FlatSQLDatabase_ingestOneWithSource(db, payload, source),
                         ingestFlatBuffer(db.storage_, payload).callbacks)

\* the state after the scan sql returned r
ViewQueryReturned(sql, r) ==
    /\ db' = r.db
    /\ lastQuery' = [asked |-> TRUE, sql |-> sql, params |-> <<>>,
                     result |-> r.result, threw |-> r.threw,
                     fastPath |-> r.fastPath,
                     executor |-> NoQuery.executor]
    /\ UNCHANGED <<hiding, routed, storeVars, streamVars, btreeVars, vtabVars>>

ViewQuery ==
    \E tableName \in BaseTables :
        ViewQueryReturned(Sql("scan", tableName, ""),
                          FlatSQLDatabase_query(db, Sql("scan", tableName, ""), <<>>))

NextViews ==
    \/ DbRegisterFileId \/ ViewSetFieldExtractor \/ ViewRegisterSource
    \/ ViewCreateUnifiedViews \/ ViewIngestOneWithSource \/ ViewQuery

SpecViews == InitDb /\ [][NextViews]_vars

(***************************************************************************)
(* The database with an extractor that raises on malformed records         *)
(***************************************************************************)
\* a whole User record, one cut after the field id, one cut before it
RaisePayloads ==
    { Payload(FileIdUser, 1, 1),
      <<0, 0, 0, 0>> \o FileIdUser \o <<2>>,
      <<0, 0, 0, 0>> \o FileIdUser }

RaiseExtractors == {"demo", "strict"}

\* the inputs of ingest(): one frame, or two
RaiseStreams ==
    {Framed(p) : p \in RaisePayloads} \cup
    {Framed(p) \o Framed(q) : p \in RaisePayloads, q \in RaisePayloads}

RaiseSetFieldExtractor ==
    \E tableName \in BaseTables, extractor \in RaiseExtractors :
        /\ db' = FlatSQLDatabase_setFieldExtractor(db, tableName, extractor).db
        /\ db' # db
        /\ lastQuery' = NoQuery
        /\ UNCHANGED <<hiding, routed, storeVars, streamVars, btreeVars, vtabVars>>

RaiseIngestReturned(r) ==
    /\ db' = r.db
    /\ lastQuery' = NoQuery
    /\ UNCHANGED <<hiding, routed, storeVars, streamVars, btreeVars, vtabVars>>

RaiseIngest ==
    \E input \in RaiseStreams :
        /\ db.storage_.nextSequence_ <= MaxDbRecords
        /\ RaiseIngestReturned(FlatSQLDatabase_ingest(db, input))

RaiseIngestOne ==
    \E payload \in RaisePayloads :
        /\ db.storage_.nextSequence_ <= MaxDbRecords
        /\ RaiseIngestReturned(FlatSQLDatabase_ingestOne(db, payload))

NextRaise ==
    \/ DbRegisterFileId \/ RaiseSetFieldExtractor
    \/ RaiseIngest \/ RaiseIngestOne \/ ViewQuery

SpecRaise == InitDb /\ [][NextRaise]_vars

(***************************************************************************)
(* SpecStmt: an engine answers statements the fast path has missed, in any *)
(* order; each goes through the statement cache                            *)
(***************************************************************************)
MaxStatements == 4

\* the statement texts the application sends
SqlTexts == {"q1", "q2", "q3", "q4"}

InitStmt ==
    /\ stmts = NewStmtEngine
    /\ prepared = NoPrepare
    /\ idxInfo = NoIndexInfo
    /\ cursor = NoCursor
    /\ yielded = <<>>
    /\ AuxIdle
    /\ StoreIdle
    /\ BTreeIdle
    /\ DbIdle
    /\ pc = "stmt"

\* the state after getOrPrepareStmt(sql), called by op, returned r
StmtReturned(op, sql, outcome, r) ==
    /\ stmts' = r.engine
    /\ prepared' = [asked |-> TRUE, op |-> op, sql |-> sql, outcome |-> outcome, before |-> stmts,
                    stmt |-> r.stmt, threw |-> r.threw, hit |-> r.hit]
    /\ UNCHANGED <<idxInfo, cursor, yielded, storeVars, streamVars, btreeVars, dbVars, auxVars>>

\* execute(sql, params) past the fast path
StmtExecute ==
    \E sql \in SqlTexts, outcome \in PrepareOutcomes :
        /\ Len(stmts.statements) < MaxStatements
        /\ StmtReturned("execute", sql, outcome, getOrPrepareStmt(stmts, sql, outcome))

\* executeAndCount(sql, params) past the fast path
StmtExecuteAndCount ==
    \E sql \in SqlTexts, outcome \in PrepareOutcomes :
        /\ Len(stmts.statements) < MaxStatements
        /\ StmtReturned("executeAndCount", sql, outcome,
                        getOrPrepareStmt(stmts, sql, outcome))

NextStmt == StmtExecute \/ StmtExecuteAndCount

SpecStmt == InitStmt /\ [][NextStmt]_vars


(***************************************************************************)
(* SpecBestIndex: SQLite hands xBestIndex a list of constraints on a       *)
(* virtual table of the schema                                             *)
(***************************************************************************)
MaxConstraints == 2

ConstraintColumns == {-1} \cup (0..Len(UserTableDef.columns))

ConstraintOps == {"EQ", "GT", "LE", "LIKE"}

Constraints ==
    {IndexConstraint(c, op, u) : c \in ConstraintColumns, op \in ConstraintOps, u \in BOOLEAN}

\* the index objects a table of the schema has: one per indexed column, or
\* only the key's
VTabIndexSets == {{"id", "name"}, {"id"}}

InitBestIndex ==
    /\ idxInfo \in {[NoIndexInfo EXCEPT !.vtab = VTabOf(UserTableDef, ix), !.aConstraint = cs,
                                        !.aConstraintUsage = [i \in DOMAIN cs |-> NoUsage]] :
                        ix \in VTabIndexSets, cs \in SeqsUpTo(Constraints, MaxConstraints)}
    /\ stmts = NewStmtEngine
    /\ prepared = NoPrepare
    /\ cursor = NoCursor
    /\ yielded = <<>>
    /\ AuxIdle
    /\ StoreIdle
    /\ BTreeIdle
    /\ DbIdle
    /\ pc = "plan"

BestIndex ==
    /\ ~idxInfo.planned
    /\ LET p == xBestIndex(idxInfo.vtab, idxInfo.aConstraint)
       IN  idxInfo' = [idxInfo EXCEPT !.idxNum = p.idxNum, !.estimatedCost = p.estimatedCost,
                                      !.aConstraintUsage = p.aConstraintUsage,
                                      !.planned = TRUE]
    /\ UNCHANGED <<stmts, prepared, cursor, yielded, storeVars, streamVars, btreeVars, dbVars, auxVars>>

NextBestIndex == BestIndex

SpecBestIndex == InitBestIndex /\ [][NextBestIndex]_vars


(***************************************************************************)
(* SpecCursor: a database takes a binding, an extractor, ingests,          *)
(* deletions and reloads; between them a statement opens a cursor on a     *)
(* virtual table, filters it, steps it and closes it                       *)
(***************************************************************************)
\* xNext calls made on a cursor that is at EOF
MaxPastEof == 1

\* the streams a reload is given: nothing, or one user record
LoadStreams == {<<>>, Framed(Payload(FileIdUser, 1, 1))}

\* what xFilter is called with: idxNum and the argument values
CursorPlans ==
    {[idxNum |-> 0, argv |-> <<>>]} \cup
    {[idxNum |-> 1, argv |-> <<SqliteValue("INTEGER", n)>>] : n \in 1..2} \cup
    {[idxNum |-> 2, argv |-> <<SqliteValue("INTEGER", 1)>>]} \cup
    {[idxNum |-> 2 + 256, argv |-> <<SqliteValue("TEXT", text)>>] : text \in {<<1>>, <<1, 0>>}} \cup
    {[idxNum |-> 3 + 256, argv |-> <<SqliteValue("TEXT", <<1>>)>>]}

CurSetFieldExtractor == ~cursor.open /\ db.storage_.recordCount_ = 0 /\ DbSetFieldExtractor

CurSetupFileId == ~cursor.open /\ db.storage_.recordCount_ = 0 /\ DbRegisterFileId

CurIngestOne == ~cursor.open /\ DbIngestOne

CurMarkDeleted == ~cursor.open /\ DbMarkDeleted

CurLoadAndRebuild ==
    \E data \in LoadStreams :
        /\ ~cursor.open
        /\ db.storage_.nextSequence_ <= MaxDbRecords
        /\ DbAfterIngest(FlatSQLDatabase_loadAndRebuild(db, data),
                         loadAndRebuild(db.storage_, data).callbacks)

\* a statement on table T starts: the engine is initialized and the executor
\* opens a cursor on T's virtual table
CursorOpen ==
    \E T \in QueryTables :
        /\ ~cursor.open
        /\ ~initializeSQLiteEngineThrows(db)
        /\ T \in FlatSQLDatabase_initializeSQLiteEngine(db).sqliteEngine_.vtabs_
        /\ db' = FlatSQLDatabase_initializeSQLiteEngine(db)
        /\ cursor' = [NoCursor EXCEPT !.open = TRUE, !.c = xOpen(T)]
        /\ yielded' = <<>>
        /\ lastQuery' = NoQuery
        /\ hiding' = NoHiding
        /\ UNCHANGED <<routed, stmts, prepared, idxInfo, storeVars, streamVars, btreeVars, auxVars>>

\* the row the cursor stands on
CurrentRow(c) == [offset |-> c.currentOffset, sequence |-> c.currentSequence]

\* the state after a cursor call returned r
CursorReturned(r, rows) ==
    /\ yielded' = IF r.raised \/ xEof(r.c) THEN rows ELSE Append(rows, CurrentRow(r.c))
    /\ UNCHANGED <<stmts, prepared, idxInfo, storeVars, streamVars, btreeVars, dbVars, auxVars>>

CursorFilter ==
    \E plan \in CursorPlans :
        /\ cursor.open /\ ~cursor.filtered
        /\ LET r == xFilter(cursor.c, db, plan.idxNum, plan.argv)
           IN  /\ cursor' = [cursor EXCEPT !.filtered = TRUE, !.raised = r.raised,
                                           !.idxNum = plan.idxNum, !.argv = plan.argv,
                                           !.c = r.c]
               /\ CursorReturned(r, <<>>)

CursorNext ==
    /\ cursor.filtered /\ ~cursor.raised
    /\ xEof(cursor.c) => cursor.pastEof < MaxPastEof
    /\ LET r == xNext(cursor.c, db)
       IN  /\ cursor' = [cursor EXCEPT !.raised = r.raised, !.c = r.c,
                                       !.pastEof = IF xEof(cursor.c) THEN @ + 1 ELSE @]
           /\ CursorReturned(r, yielded)

\* xClose, also after an exception has left the statement
CursorClose ==
    /\ cursor.open
    /\ cursor' = NoCursor
    /\ yielded' = <<>>
    /\ UNCHANGED <<stmts, prepared, idxInfo, storeVars, streamVars, btreeVars, dbVars, auxVars>>

NextCursor ==
    \/ CurSetupFileId \/ CurSetFieldExtractor \/ CurIngestOne \/ CurMarkDeleted
    \/ CurLoadAndRebuild
    \/ CursorOpen \/ CursorFilter \/ CursorNext \/ CursorClose

SpecCursor == InitDb /\ [][NextCursor]_vars


(***************************************************************************)
(* SpecPlan: the executor plans a WHERE clause with xBestIndex and runs    *)
(* the cursor with the plan                                                *)
(***************************************************************************)
\* a source name as the bytes of a TEXT value (abbreviated); 90 is the name
\* of no source of the database
TextOf(name) == IF name = "User" THEN <<85>> ELSE <<85, 64>>

\* a usable constraint of the WHERE clause and the value of its right side
ValuedConstraint(iColumn, op, value) ==
    [iColumn |-> iColumn, op |-> op, usable |-> TRUE, value |-> value]

\* the constraints a WHERE clause is made of: a tuple, since a set holds
\* values of one shape
WhereConstraints ==
    << ValuedConstraint(-1, "EQ", SqliteValue("INTEGER", 1)),
       ValuedConstraint(-1, "EQ", SqliteValue("INTEGER", 2)),
       ValuedConstraint(0, "EQ", SqliteValue("INTEGER", 1)),
       ValuedConstraint(0, "GT", SqliteValue("INTEGER", 1)),
       ValuedConstraint(1, "EQ", SqliteValue("TEXT", <<1>>)),
       ValuedConstraint(2, "EQ", SqliteValue("TEXT", TextOf("User"))),
       ValuedConstraint(2, "EQ", SqliteValue("TEXT", <<90>>)) >>

\* the WHERE clauses: up to MaxConstraints constraints, by position in
\* WhereConstraints
WhereClauses == SeqsUpTo(DOMAIN WhereConstraints, MaxConstraints)

WhereClause(picks) == [k \in DOMAIN picks |-> WhereConstraints[picks[k]]]

\* argv as the executor builds it: argv[k - 1] is the right side of the
\* constraint whose argvIndex is k
ArgvOf(aConstraint, aConstraintUsage) ==
    LET used == {i \in DOMAIN aConstraint : aConstraintUsage[i].argvIndex > 0}
    IN  [k \in 1..Cardinality(used) |->
            aConstraint[CHOOSE i \in used : aConstraintUsage[i].argvIndex = k].value]

\* the state after xBestIndex returned plan and xFilter, called with it,
\* returned r
PlanFiltered(aConstraint, plan, argv, r) ==
    /\ idxInfo' = [vtab |-> VTabOf(db.tables_[cursor.c.vtab].tableDef,
                                   DOMAIN db.tables_[cursor.c.vtab].indexes_),
                   aConstraint |-> aConstraint,
                   aConstraintUsage |-> plan.aConstraintUsage,
                   idxNum |-> plan.idxNum, estimatedCost |-> plan.estimatedCost,
                   planned |-> TRUE]
    /\ cursor' = [cursor EXCEPT !.filtered = TRUE, !.raised = r.raised,
                                !.idxNum = plan.idxNum, !.argv = argv, !.c = r.c]
    /\ yielded' = IF r.raised \/ xEof(r.c) THEN <<>> ELSE <<CurrentRow(r.c)>>
    /\ UNCHANGED <<stmts, prepared, storeVars, streamVars, btreeVars, dbVars, auxVars>>

PlanRun(aConstraint, plan, argv) ==
    PlanFiltered(aConstraint, plan, argv, xFilter(cursor.c, db, plan.idxNum, argv))

PlanWhere(aConstraint, vtab) ==
    PlanRun(aConstraint, xBestIndex(vtab, aConstraint),
            ArgvOf(aConstraint, xBestIndex(vtab, aConstraint).aConstraintUsage))

PlanFilter ==
    \E picks \in WhereClauses :
        /\ cursor.open /\ ~cursor.filtered
        /\ PlanWhere(WhereClause(picks),
                     VTabOf(db.tables_[cursor.c.vtab].tableDef,
                            DOMAIN db.tables_[cursor.c.vtab].indexes_))

PlanClose ==
    /\ cursor.open
    /\ cursor' = NoCursor
    /\ yielded' = <<>>
    /\ idxInfo' = NoIndexInfo
    /\ UNCHANGED <<stmts, prepared, storeVars, streamVars, btreeVars, dbVars, auxVars>>

NextPlan ==
    \/ CurSetupFileId \/ CurSetFieldExtractor \/ CurIngestOne
    \/ CursorOpen \/ PlanFilter \/ CursorNext \/ PlanClose

SpecPlan == InitDb /\ [][NextPlan]_vars

(***************************************************************************)
(* SpecCompare: compareValues is applied to the pairs of three Values      *)
(***************************************************************************)
MaxKeyLen == 2

\* the Values compared: by kind, since a set holds values of one shape
ComparedValues ==
    << {NullValue, Int32Value(-1), Int32Value(1), Int64Value(0), Int64Value(1)},
       {StringValue(b) : b \in SeqsUpTo(Byte, MaxKeyLen)},
       {BytesValue(b) : b \in SeqsUpTo(Byte, MaxKeyLen)} >>

InitCompare ==
    /\ \E i, j, k \in DOMAIN ComparedValues :
         \E a \in ComparedValues[i], b \in ComparedValues[j], c \in ComparedValues[k] :
            compared = [done |-> FALSE, a |-> a, b |-> b, c |-> c]
    /\ stmts = NewStmtEngine
    /\ prepared = NoPrepare
    /\ idxInfo = NoIndexInfo
    /\ cursor = NoCursor
    /\ yielded = <<>>
    /\ textQuery = NoTextQuery
    /\ StoreIdle
    /\ BTreeIdle
    /\ DbIdle
    /\ pc = "compare"

Compare ==
    /\ ~compared.done
    /\ compared' = [done |-> TRUE, a |-> compared.a, b |-> compared.b, c |-> compared.c,
                    aa |-> compareValues(compared.a, compared.a),
                    ab |-> compareValues(compared.a, compared.b),
                    ba |-> compareValues(compared.b, compared.a),
                    bc |-> compareValues(compared.b, compared.c),
                    ac |-> compareValues(compared.a, compared.c)]
    /\ UNCHANGED <<stmts, prepared, idxInfo, cursor, yielded, textQuery,
                   storeVars, streamVars, btreeVars, dbVars>>

NextCompare == Compare

SpecCompare == InitCompare /\ [][NextCompare]_vars

(***************************************************************************)
(* SpecText: statements reach the engine as text                           *)
(***************************************************************************)
SqlStatements ==
    {"SELECT * FROM User",
     "select  *  from \"User\" ;",
     "SELECT * FROM User WHERE id = ?",
     "select * from user where id = ? and name = 'x'",
     "select * from user where id = ? limit 0",
     "select * from user where name = 'x' or id = ?",
     "select * from user where id > ?",
     "select * from user limit 1",
     "select id from user"}

StatementParams == {<<>>, <<Int32Value(1)>>}

\* SQLiteEngine::execute up to the return of tryFastPath; a statement the
\* fast path declines goes on to sqlite3_prepare_v2
TextExecute(init, sql, params, fast) ==
    /\ db' = IF init.threw THEN init.db ELSE [init.db EXCEPT !.sqliteEngine_ = fast.engine]
    /\ textQuery' = [asked |-> TRUE, sql |-> sql, params |-> params,
                     fastPath |-> ~init.threw /\ fast.hit]
    /\ lastQuery' = NoQuery
    /\ hiding' = NoHiding
    /\ UNCHANGED <<routed, storeVars, streamVars, btreeVars,
                   stmts, prepared, idxInfo, cursor, yielded, compared>>

TextQuery ==
    \E sql \in SqlStatements, params \in StatementParams :
        TextExecute(DbResult(FlatSQLDatabase_initializeSQLiteEngine(db), 0,
                             initializeSQLiteEngineThrows(db)),
                    sql, params,
                    tryFastPathText(FlatSQLDatabase_initializeSQLiteEngine(db), sql, params))

\* the application binds the file identifier and installs the extractor
\* before it ingests
TextSetupFileId == db.storage_.recordCount_ = 0 /\ DbRegisterFileId

TextSetFieldExtractor == db.storage_.recordCount_ = 0 /\ DbSetFieldExtractor

NextText ==
    \/ TextSetupFileId \/ TextSetFieldExtractor \/ DbIngestOne
    \/ TextQuery

SpecText == InitDb /\ [][NextText]_vars

(***************************************************************************)
(* SpecWasm: the loop of ingest in a build with 32-bit size_t, one         *)
(* iteration per step; splitAt is the read offset                          *)
(***************************************************************************)
\* the pieces an input is made of: an empty record, a record with five
\* bytes of payload cut short, records whose size prefix is 2^32 - 4,
\* 2^32 - 1 and 2^32 - 8, and a stray byte
WasmChunks ==
    { <<0, 0, 0, 0>>, <<1, 0, 0, 0, 7>>, <<5, 0, 0, 0, 7>>, <<252, 255, 255, 255>>,
      <<255, 255, 255, 255>>, <<248, 255, 255, 255>>, <<1>> }

MaxChunks == 2

RECURSIVE Concat(_)
Concat(chunks) == IF chunks = <<>> THEN <<>> ELSE Head(chunks) \o Concat(Tail(chunks))

WasmInputs == {Concat(chunks) : chunks \in SeqsUpTo(WasmChunks, MaxChunks)}

\* what a read past the end of the input buffer may deliver as file
\* identifier
StrayFileIds == {<<0, 0, 0, 0>>, FileIdUser}

InitWasm ==
    /\ store = NewStore(DbCapacity)
    /\ hung = FALSE
    /\ call = NoCall
    /\ singleCalls = 0
    /\ singleOnly = TRUE
    /\ stream \in WasmInputs
    /\ splitAt = 0
    /\ pc = "loop"
    /\ store0 = store
    /\ fired = <<>>
    /\ BTreeIdle
    /\ DbIdle
    /\ VTabIdle

\* the file identifier extractFileId reads for the record at the offset:
\* bytes 4..7 of the payload when fbSize >= 8, read past the input when the
\* input ends before them
FileIdsRead32(data, offset) ==
    LET fbSize == readLE32_u32(data, offset) IN
    IF fbSize.hi = 0 /\ fbSize.lo < 8 THEN {<<>>}
    ELSE IF offset + SIZE_PREFIX_LENGTH + 8 <= Len(data)
    THEN {SubSeq(data, offset + SIZE_PREFIX_LENGTH + FILE_IDENTIFIER_OFFSET + 1,
                 offset + SIZE_PREFIX_LENGTH + FILE_IDENTIFIER_OFFSET + FILE_IDENTIFIER_LENGTH)}
    ELSE StrayFileIds

\* an iteration that accepts the record and copies SIZE_PREFIX_LENGTH +
\* fbSize (mod 2^32) bytes that lie inside the input
WasmAccept ==
    /\ pc = "loop" /\ ~hung
    /\ store.nextSequence_ <= MaxSeq
    /\ AcceptsRecord32(stream, splitAt)
    /\ Consumed32(stream, splitAt).hi = 0
    /\ splitAt + Consumed32(stream, splitAt).lo <= Len(stream)
    /\ \E fileId \in FileIdsRead32(stream, splitAt) :
         /\ store' = StoreFramed(store, SubSeq(stream, splitAt + 1,
                                               splitAt + Consumed32(stream, splitAt).lo))
         /\ fired' = Append(fired, [fileId |-> fileId, sequence |-> store.nextSequence_,
                                    offset |-> store.writeOffset_])
    /\ splitAt' = splitAt + Consumed32(stream, splitAt).lo
    /\ call' = [op |-> "ingest32", offset |-> splitAt,
                fbSize |-> readLE32_u32(stream, splitAt),
                advance |-> Consumed32(stream, splitAt).lo]
    /\ UNCHANGED <<hung, pc, singleCalls, singleOnly, stream, store0,
                   btreeVars, dbVars, vtabVars>>

\* an iteration that accepts the record although SIZE_PREFIX_LENGTH + fbSize
\* is close to 2^32 bytes: ensureCapacity doubles a 32-bit size towards it,
\* memcpy reads and writes far past both buffers. The build hangs in the
\* doubling loop or traps
WasmOverrun ==
    /\ pc = "loop" /\ ~hung
    /\ AcceptsRecord32(stream, splitAt)
    /\ \/ Consumed32(stream, splitAt).hi > 0
       \/ splitAt + Consumed32(stream, splitAt).lo > Len(stream)
    /\ \/ hung' = TRUE /\ pc' = pc
       \/ hung' = hung /\ pc' = "trapped"
    /\ call' = [op |-> "ingest32", offset |-> splitAt,
                fbSize |-> readLE32_u32(stream, splitAt), advance |-> 0]
    /\ UNCHANGED <<store, fired, splitAt, singleCalls, singleOnly, stream, store0,
                   btreeVars, dbVars, vtabVars>>

\* the loop ends: fewer than SIZE_PREFIX_LENGTH bytes are left, or the
\* record is found incomplete; ingest returns the offset
WasmReturn ==
    /\ pc = "loop" /\ ~hung
    /\ ~AcceptsRecord32(stream, splitAt)
    /\ pc' = "returned"
    /\ UNCHANGED <<store, hung, call, fired, splitAt, singleCalls, singleOnly, stream, store0,
                   btreeVars, dbVars, vtabVars>>

NextWasm == WasmAccept \/ WasmOverrun \/ WasmReturn

SpecWasm == InitWasm /\ [][NextWasm]_vars

(***************************************************************************)
(* SpecCli: the stdin loop of runCLI (flatsql.cpp). stream is what stdin   *)
(* delivers, splitAt the number of bytes read so far; buffer is the bytes  *)
(* read, since nothing is ever erased from it                              *)
(***************************************************************************)
\* constexpr CHUNK_SIZE = 64 * 1024, scaled
CHUNK_SIZE == 4

InitCli ==
    /\ store = NewStore(DbCapacity)
    /\ hung = FALSE
    /\ call = NoCall
    /\ singleCalls = 0
    /\ singleOnly = TRUE
    /\ stream \in ByteStrings
    /\ splitAt = 0
    /\ pc = "reading"
    /\ store0 = store
    /\ fired = <<>>
    /\ BTreeIdle
    /\ DbIdle
    /\ VTabIdle

\* the state after db.ingest(buffer.data(), buffer.size()) returned r
CliIngested(buffer, r) ==
    /\ store' = r.st
    /\ hung' = r.diverged
    /\ call' = CallRecord("ingest", buffer, r)
    /\ fired' = fired \o r.callbacks
    /\ UNCHANGED <<singleCalls, singleOnly, stream, store0, btreeVars, dbVars, vtabVars>>

\* one pass of the while loop: std::cin.read delivers CHUNK_SIZE bytes, or
\* the rest of the input at end of file; the chunk is appended to buffer and
\* the whole buffer is ingested
CliRead ==
    /\ pc = "reading" /\ ~hung
    /\ splitAt < Len(stream)
    /\ splitAt' = Min(splitAt + CHUNK_SIZE, Len(stream))
    /\ pc' = "reading"
    /\ CliIngested(SubSeq(stream, 1, Min(splitAt + CHUNK_SIZE, Len(stream))),
                   ingest(store, SubSeq(stream, 1, Min(splitAt + CHUNK_SIZE, Len(stream)))))

\* end of file with nothing read: the loop ends, and a buffer that is not
\* empty is ingested once more
CliFinal ==
    /\ pc = "reading" /\ ~hung
    /\ splitAt = Len(stream)
    /\ splitAt' = splitAt
    /\ pc' = "done"
    /\ IF stream # <<>>
       THEN CliIngested(stream, ingest(store, stream))
       ELSE UNCHANGED <<store, hung, call, fired, singleCalls, singleOnly, stream, store0,
                        btreeVars, dbVars, vtabVars>>

NextCli == CliRead \/ CliFinal

SpecCli == InitCli /\ [][NextCli]_vars


Reload(d) ==
    LET fresh == [NewDatabase(d.searchFirstPolicy) EXCEPT
                    !.fileIdToTable_ = d.fileIdToTable_,
                    !.tables_ = [t \in DOMAIN @ |->
                        [@[t] EXCEPT !.fileId_ = d.tables_[t].fileId_,
                                     !.fieldExtractor_ = d.tables_[t].fieldExtractor_]]]
    IN  FlatSQLDatabase_loadAndRebuild(fresh, FlatSQLDatabase_exportData(d)).db

\* SELECT * FROM tableName
Scan(d, tableName) == FlatSQLDatabase_query(d, Sql("scan", tableName, ""), <<>>)

\* the _rowid values of a result
RowIds(result) == {RowId(result.rows[i]) : i \in DOMAIN result.rows}

(***************************************************************************)
(* The framed-stream format (spec section 6), stated without the store:    *)
(* stream ::= record*, record ::= size:u32_LE payload:size bytes           *)
(***************************************************************************)
FrameSize(S) == S[1] + 256 * S[2] + 65536 * S[3] + 16777216 * S[4]

RECURSIVE IsFramedStream(_)
IsFramedStream(S) ==
    \/ S = <<>>
    \/ /\ Len(S) >= 4
       /\ 4 + FrameSize(S) <= Len(S)
       /\ IsFramedStream(SubSeq(S, 4 + FrameSize(S) + 1, Len(S)))

\* S without its truncated tail: the longest prefix that is a framed stream
LongestFramedPrefix(S) ==
    LET n == CHOOSE n \in 0..Len(S) :
                /\ IsFramedStream(SubSeq(S, 1, n))
                /\ \A m \in (n + 1)..Len(S) : ~IsFramedStream(SubSeq(S, 1, m))
    IN  SubSeq(S, 1, n)

RECURSIVE CountFrames(_)
CountFrames(S) ==
    IF S = <<>> THEN 0
    ELSE 1 + CountFrames(SubSeq(S, 4 + FrameSize(S) + 1, Len(S)))

IsFresh(st) == st = NewStore(Len(st.data_))

(***************************************************************************)
(* Claims                                                                  *)
(***************************************************************************)

\* C1: loadAndRebuild(S) on a fresh store followed by exportData() returns
\* S with the truncated tail removed, for every byte string S.
C1_RoundTrip ==
    (pc = "loaded" /\ ~hung /\ IsFresh(store0))
        => exportData(store) = LongestFramedPrefix(stream)

\* a fresh store loaded a stream with a complete record and a truncated tail
C1_Witness ==
    /\ pc = "loaded" /\ ~hung /\ IsFresh(store0)
    /\ exportData(store) # <<>>
    /\ Len(exportData(store)) < Len(stream)

\* C2: on a fresh store, the k-th successful single-record ingest
\* (ingestFlatBuffer and ingestOne in any mix) returns sequence k and its
\* callback receives sequence k.
C2_SequencesInCallOrder ==
    (singleOnly /\ ~hung /\ ~call.threw /\ call.op \in {"ingestOne", "ingestFlatBuffer"})
        => /\ call.ret = singleCalls
           /\ Len(call.callbacks) = 1
           /\ call.callbacks[1].sequence = singleCalls

\* the third single-record ingest in a row returned, made through ingestOne
C2_Witness ==
    /\ singleOnly /\ ~hung /\ ~call.threw
    /\ call.op = "ingestOne"
    /\ singleCalls = 3
    /\ store.recordCount_ = 3

\* C3: sequence_to_offset and offset_to_sequence are mutual inverses in every
\* state reachable by ingest, ingestOne, ingestFlatBuffer and loadAndRebuild.
C3_MutualInverses ==
    /\ \A s \in DOMAIN store.sequenceToOffset_ :
          /\ store.sequenceToOffset_[s] \in DOMAIN store.offsetToSequence_
          /\ store.offsetToSequence_[store.sequenceToOffset_[s]] = s
    /\ \A o \in DOMAIN store.offsetToSequence_ :
          /\ store.offsetToSequence_[o] \in DOMAIN store.sequenceToOffset_
          /\ store.sequenceToOffset_[store.offsetToSequence_[o]] = o

\* C9: ingest stores exactly the longest prefix of complete framed records
\* of its input, returns its length as bytes consumed, reports its number of
\* records and raises no error for a partial tail.
C9_IngestLongestPrefix ==
    (pc = "whole" /\ ~hung) =>
        LET P == LongestFramedPrefix(stream) IN
        /\ exportData(store) = exportData(store0) \o P
        /\ store.writeOffset_ = store0.writeOffset_ + Len(P)
        /\ store.recordCount_ = store0.recordCount_ + CountFrames(P)
        /\ call.ret = Len(P)
        /\ call.records = CountFrames(P)
        /\ ~call.threw
        /\ (Len(P) < Len(stream) => call.ret < Len(stream))

\* ingest on a store that held a record took one record and left a tail
C9_Witness ==
    /\ pc = "whole" /\ ~hung
    /\ store0.recordCount_ = 1
    /\ call.records >= 1
    /\ call.ret < Len(stream)

\* C10: ingest(S[0..k)) followed by ingest of the unconsumed bytes and
\* S[k..) leaves the store as a single ingest(S) does and fires the same
\* callbacks in the same order.
C10_SplitIngest ==
    (pc = "rest" /\ ~hung) =>
        LET single == ingest(store0, stream) IN
        /\ store = single.st
        /\ fired = single.callbacks

\* a split inside the second record: each call stored one record
C10_Witness ==
    /\ pc = "rest" /\ ~hung
    /\ Len(fired) = 2
    /\ call.records = 1
    /\ splitAt = 6

\* the multiset of the elements of a sequence
BagOfSeq(s) ==
    [e \in {s[i] : i \in DOMAIN s} |-> Cardinality({i \in DOMAIN s : s[i] = e})]

\* C7: for every order and every sequence of inserts (duplicate keys
\* allowed), search(k) returns every inserted entry whose key equals k, each
\* exactly once, and no other entry.
C7_SearchReturnsAllInserted ==
    found.searched =>
        BagOfSeq(found.results) =
            BagOfSeq(SelectSeq(inserted, LAMBDA e : compareValues(e.key, found.key) = 0))

\* the places of index entries or routed records
Locations(s) ==
    [i \in DOMAIN s |->
        IF "dataOffset" \in DOMAIN s[i]
        THEN <<s[i].dataOffset, s[i].dataLength, s[i].sequence>>
        ELSE <<s[i].offset, s[i].length, s[i].sequence>>]

\* the keys searched for in the index on a column: the values of the
\* column in the records, and one that no record has
IndexKeys(c) ==
    IF c = "id" THEN {Int32Value(1), Int32Value(2), Int32Value(3)}
    ELSE {StringValue(<<1>>), StringValue(<<2>>), StringValue(<<3>>)}

\* C4: after mark_deleted(T, seq) the point query on an indexed column of T
\* returns no row whose _rowid is seq; after a following clear_tombstones(T)
\* the same query returns again the row it returned before the deletion.
C4_TombstoneHidesThenReappears ==
    /\ ( /\ lastQuery.asked /\ ~lastQuery.threw
         /\ lastQuery.sql.shape = "point"
         /\ lastQuery.sql.table \in DOMAIN db.sqliteEngine_.sources_ )
       => \A i \in DOMAIN lastQuery.result.rows :
            RowId(lastQuery.result.rows[i]) \notin
                db.sqliteEngine_.sources_[lastQuery.sql.table].tombstones
    /\ ( /\ hiding.phase = "cleared"
         /\ lastQuery.asked
         /\ lastQuery.sql = hiding.sql /\ lastQuery.params = hiding.params )
       => /\ ~lastQuery.threw
          /\ \E i \in DOMAIN lastQuery.result.rows : lastQuery.result.rows[i] = hiding.row

\* a point query showed a row, the row was deleted and the query no longer
\* showed it, the tombstones were cleared and the query shows it again
C4_Witness ==
    /\ hiding.phase = "cleared" /\ hiding.hidden
    /\ lastQuery.asked /\ lastQuery.sql = hiding.sql /\ lastQuery.params = hiding.params
    /\ Len(lastQuery.result.rows) = 1
    /\ RowId(lastQuery.result.rows[1]) = hiding.sequence

\* C5: a statement of a fast-path shape answered by the fast path has the
\* result the SQL executor produces through the virtual table: the same
\* column names in the same order, the same rows as a multiset, the same
\* value types.
C5_FastPathEqualsExecutor ==
    (lastQuery.asked /\ lastQuery.fastPath /\ ~lastQuery.threw) =>
        /\ ~lastQuery.executor.threw
        /\ lastQuery.result.columns = lastQuery.executor.result.columns
        /\ BagOfSeq(lastQuery.result.rows) = BagOfSeq(lastQuery.executor.result.rows)

\* C6 (amended): for every table T, indexed column C and key k, search(k) on
\* T's index on C returns exactly the (offset, length, sequence) of the
\* records routed to T while T had an extractor installed whose value of C,
\* as extracted at ingest, equals k; tombstoned records included.
C6_IndexHoldsRecordsIngestedWithExtractor ==
    \A t \in DOMAIN db.tables_ :
        \A c \in DOMAIN db.tables_[t].indexes_ : \A k \in IndexKeys(c) :
            BagOfSeq(Locations(SqliteIndex_search(db.tables_[t].indexes_[c], k))) =
            BagOfSeq(Locations(SelectSeq(routed, LAMBDA r :
                /\ r.table = t
                /\ r.extractor # "none"
                /\ compareValues(ExtractField(r.extractor, r.data, r.length, c), k) = 0)))

\* an index holds a record under a key while another record routed to the
\* table went unindexed and the table has a tombstone
C6_Witness ==
    \E t \in DOMAIN db.tables_ :
        \E c \in DOMAIN db.tables_[t].indexes_ : \E k \in IndexKeys(c) :
            /\ Len(SqliteIndex_search(db.tables_[t].indexes_[c], k)) >= 1
            /\ \E i \in DOMAIN routed : routed[i].table = t /\ routed[i].extractor = "none"
            /\ t \in DOMAIN db.sqliteEngine_.sources_
            /\ db.sqliteEngine_.sources_[t].tombstones # {}

\* C6 as stated: search(k) returns the (offset, length, sequence) of every
\* record routed to T whose value of C, extracted by T's extractor, equals k.
C6_IndexHoldsEveryRoutedRecord ==
    \A t \in DOMAIN db.tables_ :
        \A c \in DOMAIN db.tables_[t].indexes_ : \A k \in IndexKeys(c) :
            BagOfSeq(Locations(SqliteIndex_search(db.tables_[t].indexes_[c], k))) =
            BagOfSeq(Locations(SelectSeq(routed, LAMBDA r :
                /\ r.table = t
                /\ db.tables_[t].fieldExtractor_ # "none"
                /\ compareValues(ExtractField(db.tables_[t].fieldExtractor_,
                                              r.data, r.length, c), k) = 0)))

\* C8: loading the export into a database with the same schema and file-id
\* bindings gives, for every table T that SELECT * FROM T can be asked of,
\* a result with the same set of _rowid values as on the original database.
C8_ReloadKeepsRowIds ==
    \A t \in BaseTables :
        ~Scan(db, t).threw =>
            /\ ~Scan(Reload(db), t).threw
            /\ RowIds(Scan(Reload(db), t).result) = RowIds(Scan(db, t).result)

\* the input of a call is shorter than a size prefix, or shorter than the
\* prefix and the payload it announces
IsTruncatedFrame(input) ==
    \/ Len(input) < SIZE_PREFIX_LENGTH
    \/ Len(input) < FrameSize(input) + SIZE_PREFIX_LENGTH

StoredOneMore(before, after, payload) ==
    /\ exportData(after) = exportData(before) \o Framed(payload)
    /\ after.recordCount_ = before.recordCount_ + 1
    /\ after.nextSequence_ = before.nextSequence_ + 1
    /\ before.nextSequence_ \in DOMAIN after.sequenceToOffset_
    /\ after.sequenceToOffset_[before.nextSequence_] = before.writeOffset_

\* C12: ingesting a record whose file identifier is bound to no table raises
\* no error, appends the record and gives it a sequence, and leaves every
\* table (record count, record infos, indexes) and every tombstone set as
\* it was; for ingest() and for ingestOne().
C12_UnboundFileIdStoredNotRouted ==
    \A payload \in Payloads :
        extractFileId(payload, Len(payload)) \notin DOMAIN db.fileIdToTable_ =>
            LET one == FlatSQLDatabase_ingestOne(db, payload)
                many == FlatSQLDatabase_ingest(db, Framed(payload))
            IN  /\ ~one.threw /\ ~many.threw
                /\ one.ret = db.storage_.nextSequence_
                /\ many.ret = Len(Framed(payload))
                /\ StoredOneMore(db.storage_, one.db.storage_, payload)
                /\ StoredOneMore(db.storage_, many.db.storage_, payload)
                /\ one.db.tables_ = db.tables_ /\ many.db.tables_ = db.tables_
                /\ one.db.sqliteEngine_ = db.sqliteEngine_
                /\ many.db.sqliteEngine_ = db.sqliteEngine_

\* the table has taken the first record, been indexed and tombstoned, and
\* the second record of the log, of the unbound identifier, went to no table
C12_Witness ==
    /\ db.storage_.recordCount_ = 2
    /\ Len(routed) = 1 /\ routed[1].sequence = 1
    /\ extractFileId(RecordAt(db.storage_, db.storage_.sequenceToOffset_[2]).data, 10)
            \notin DOMAIN db.fileIdToTable_
    /\ db.tables_["User"].recordCount_ = 1
    /\ db.tables_["User"].indexes_["id"] # <<>>
    /\ "User" \in DOMAIN db.sqliteEngine_.sources_
    /\ db.sqliteEngine_.sources_["User"].tombstones = {1}
\* the record read_record owes for a payload that was given sequence seq
RecordOf(cb) ==
    [offset |-> cb.offset,
     dataLength |-> Len(cb.data),
     fileId |-> IF Len(cb.data) >= FILE_IDENTIFIER_OFFSET + FILE_IDENTIFIER_LENGTH
                THEN SubSeq(cb.data, FILE_IDENTIFIER_OFFSET + 1,
                            FILE_IDENTIFIER_OFFSET + FILE_IDENTIFIER_LENGTH)
                ELSE <<>>,
     sequence |-> cb.sequence,
     data |-> cb.data]

\* C13: in every store state reachable by ingest, ingestOne, ingestFlatBuffer
\* and loadAndRebuild, readRecord(seq) of every seq with hasRecord(seq)
\* returns sequence seq with the payload, length and file identifier ingested
\* when seq was assigned.  Stated step by step: after a call every record it
\* announced reads back as announced, and every sequence that was readable
\* before the call and is still present reads back as before.
C13_ReadRecordReturnsIngested ==
    [][ ~hung' =>
          /\ \A i \in 1..Len(call'.callbacks) :
                /\ hasRecord(store', call'.callbacks[i].sequence)
                /\ readRecord(store', call'.callbacks[i].sequence)
                      = [threw |-> FALSE, records |-> {RecordOf(call'.callbacks[i])}]
          /\ \A seq \in DOMAIN store.sequenceToOffset_ :
                hasRecord(store', seq) =>
                    readRecord(store', seq) = readRecord(store, seq) ]_vars
\* names a caller can hand to registerFileId: the tables the database holds
\* and one name it never held
TableNamesTried == (DOMAIN db.tables_) \cup {"Missing"}

\* C14: in every reachable state, also after sources have been registered,
\* registerFileId(fileId, name) fails for every name that is not a table of
\* the schema, and the failed call leaves fileIdToTable_ and every table's
\* file identifier unchanged.
C14_RegisterFileIdRejectsNonSchemaNames ==
    \A fileId \in FileIds, name \in TableNamesTried :
        name \notin {SchemaTables[i].name : i \in 1..Len(SchemaTables)} =>
            LET r == FlatSQLDatabase_registerFileId(db, fileId, name) IN
            /\ r.threw
            /\ r.db.fileIdToTable_ = db.fileIdToTable_
            /\ \A t \in DOMAIN db.tables_ : r.db.tables_[t].fileId_ = db.tables_[t].fileId_
\* table t still reports file identifier f, and f is routed to another table
Shadowed(t, f) ==
    /\ db.tables_[t].fileId_ = f
    /\ f \in DOMAIN db.fileIdToTable_
    /\ db.fileIdToTable_[f] # t

\* C15: after any sequence of registerFileId calls the binding is one-to-one:
\* no two tables report the same file identifier, no table is the routing
\* target of two file identifiers, and a table whose binding was shadowed by
\* a later registration of its identifier receives no record of that
\* identifier and shows none in scanAll.
C15_BindingOneToOne ==
    /\ \A t, u \in DOMAIN db.tables_ :
          (t # u /\ db.tables_[t].fileId_ # <<>>) =>
              db.tables_[t].fileId_ # db.tables_[u].fileId_
    /\ \A f, g \in DOMAIN db.fileIdToTable_ :
          f # g => db.fileIdToTable_[f] # db.fileIdToTable_[g]
    /\ \A t \in DOMAIN db.tables_, f \in FileIds :
          Shadowed(t, f) =>
              /\ \A payload \in Payloads :
                    extractFileId(payload, Len(payload)) = f =>
                        FlatSQLDatabase_ingestOne(db, payload).db.tables_[t] = db.tables_[t]
              /\ \A i \in DOMAIN TableStore_scanAll(db.tables_[t], db.storage_) :
                    \A rec \in TableStore_scanAll(db.tables_[t], db.storage_)[i] :
                        rec.fileId # f
\* the sources registered so far
RegisteredSources == {db.registeredSources_[i] : i \in DOMAIN db.registeredSources_}

\* C16: whenever s is a registered source and file identifier f is bound to
\* base table T at the time of the call, a record of f ingested through
\* ingestWithSource(.., s) is added to T@s (record count, record infos,
\* indexes as TableStore::onIngest adds it) and to no other table.
C16_TaggedIngestGoesToSourceTable ==
    \A s \in RegisteredSources, payload \in Payloads :
        LET f == extractFileId(payload, Len(payload)) IN
        (f \in DOMAIN db.fileIdToTable_ /\ db.fileIdToTable_[f] \in BaseTables) =>
            LET twin == getSourceTableName(db.fileIdToTable_[f], s)
                r == FlatSQLDatabase_ingestWithSource(db, Framed(payload), s)
            IN  /\ ~r.threw
                /\ twin \in DOMAIN r.db.tables_
                /\ twin \in DOMAIN db.tables_
                /\ r.db.tables_[twin] =
                      TableStore_onIngest(db.tables_[twin], payload, Len(payload),
                                          db.storage_.nextSequence_, db.storage_.writeOffset_)
                /\ \A t \in (DOMAIN db.tables_) \ {twin} : r.db.tables_[t] = db.tables_[t]
\* the _source column of a result row
RowSource(row) == row[Len(row) - 3].v

\* the (source, sequence) pairs of the records the source tables of base
\* table T hold, for the sources of T's unified view
SourceRows(T) ==
    UNION { { <<sourceName, db.tables_[getSourceTableName(T, sourceName)].recordInfos_[i].sequence>> :
                i \in DOMAIN db.tables_[getSourceTableName(T, sourceName)].recordInfos_ } :
            sourceName \in { x \in RegisteredSources :
                \E k \in DOMAIN db.sqliteEngine_.views_[T] :
                    db.sqliteEngine_.views_[T][k] = getSourceTableName(T, x) } }

\* C17: once sources are registered and createUnifiedViews has made the view
\* of base table T, every scan of T succeeds and returns exactly the rows of
\* the source tables of T, each with the name of its source in _source,
\* whatever the order of the earlier setup calls and queries.
C17_UnifiedViewReturnsSourceRows ==
    \A T \in BaseTables :
        T \in DOMAIN db.sqliteEngine_.views_ =>
            LET q == FlatSQLDatabase_query(db, Sql("scan", T, ""), <<>>) IN
            /\ ~q.threw
            /\ { <<RowSource(q.result.rows[i]), RowId(q.result.rows[i])>> :
                    i \in DOMAIN q.result.rows } = SourceRows(T)
            /\ Len(q.result.rows) = Cardinality(SourceRows(T))
\* the _offset column of a result row
RowOffset(row) == row[Len(row) - 1].v

\* every row of result r carries in column id the value extractor f reads
\* from the row's record
IdsExtractedWith(d, f, r) ==
    \A i \in DOMAIN r.result.rows :
        r.result.rows[i][1].v =
            ExtractField(f, RecordAt(d.storage_, RowOffset(r.result.rows[i])).data,
                         RecordAt(d.storage_, RowOffset(r.result.rows[i])).length, "id").v

\* C18: after setFieldExtractor(T, f) on a table T that has a file
\* identifier, a query on T (full scan, or point query on id) extracts the
\* column values with f, also when T was registered with the engine before.
C18_QueriesUseInstalledExtractor ==
    \A T \in BaseTables, f \in Extractors, key \in {1, 2} :
        db.tables_[T].fileId_ # <<>> =>
            /\ IdsExtractedWith(db, f,
                    FlatSQLDatabase_query(FlatSQLDatabase_setFieldExtractor(db, T, f).db,
                                          Sql("scan", T, ""), <<>>))
            /\ IdsExtractedWith(db, f,
                    FlatSQLDatabase_query(FlatSQLDatabase_setFieldExtractor(db, T, f).db,
                                          Sql("point", T, "id"), <<Int32Value(key)>>))
\* what table T holds after a record given sequence seq at offset off was
\* routed to it without being indexed
CountedNotIndexed(before, after, T, seq, off) ==
    /\ after.tables_[T].recordCount_ = before.tables_[T].recordCount_ + 1
    /\ after.tables_[T].recordInfos_ =
          Append(before.tables_[T].recordInfos_, [offset |-> off, sequence |-> seq])
    /\ after.tables_[T].indexes_ = before.tables_[T].indexes_
    /\ ~Scan(after, T).threw
    /\ seq \in RowIds(Scan(after, T).result)
    /\ \E i \in DOMAIN TableStore_scanAll(after.tables_[T], after.storage_) :
          \E rec \in TableStore_scanAll(after.tables_[T], after.storage_)[i] :
              rec.sequence = seq

\* C19: a record routed to a table that has no field extractor at ingest
\* time is appended to the log, counted in the table's record count, listed
\* in its record infos and returned by full scans, and adds no entry to any
\* index of the table.
C19_NoExtractorStoredCountedNotIndexed ==
    \A payload \in Payloads :
        LET f == extractFileId(payload, Len(payload)) IN
        (/\ f \in DOMAIN db.fileIdToTable_
         /\ db.tables_[db.fileIdToTable_[f]].fieldExtractor_ = "none") =>
            /\ ~FlatSQLDatabase_ingestOne(db, payload).threw
            /\ StoredOneMore(db.storage_, FlatSQLDatabase_ingestOne(db, payload).db.storage_,
                             payload)
            /\ CountedNotIndexed(db, FlatSQLDatabase_ingestOne(db, payload).db,
                                 db.fileIdToTable_[f],
                                 db.storage_.nextSequence_, db.storage_.writeOffset_)
\* the first k records of a call are appended, sequenced and in both maps
CallRecordsStored(before, after, cbs, k) ==
    /\ after.recordCount_ = before.recordCount_ + k
    /\ after.nextSequence_ = before.nextSequence_ + k
    /\ after.writeOffset_ = cbs[k].offset + SIZE_PREFIX_LENGTH + cbs[k].length
    /\ \A i \in 1..k :
          /\ cbs[i].sequence = before.nextSequence_ + i - 1
          /\ cbs[i].sequence \in DOMAIN after.sequenceToOffset_
          /\ after.sequenceToOffset_[cbs[i].sequence] = cbs[i].offset
          /\ cbs[i].offset \in DOMAIN after.offsetToSequence_
          /\ after.offsetToSequence_[cbs[i].offset] = cbs[i].sequence
          /\ RecordAt(after, cbs[i].offset) = [data |-> cbs[i].data, length |-> cbs[i].length]

\* the record is returned by the full scans of table T
ReturnedByFullScans(d, T, seq) ==
    /\ \E i \in DOMAIN TableStore_scanAll(d.tables_[T], d.storage_) :
          \E rec \in TableStore_scanAll(d.tables_[T], d.storage_)[i] : rec.sequence = seq
    /\ ~Scan(d, T).threw
    /\ seq \in RowIds(Scan(d, T).result)

\* no index of table T has an entry of the record
InNoIndex(d, T, seq) ==
    \A c \in DOMAIN d.tables_[T].indexes_ :
        \A i \in DOMAIN d.tables_[T].indexes_[c] : d.tables_[T].indexes_[c][i].sequence # seq

\* what a call that the extractor left by an exception leaves behind; cbs are
\* the records of the input, k is the number of them the store has gained
RaisedIngestLeaves(before, r, cbs, k) ==
    r.threw =>
        /\ k \in 1..Len(cbs)
        /\ CallRecordsStored(before.storage_, r.db.storage_, cbs, k)
        /\ \A T \in CallbackTable(before, cbs[k], FALSE, "") :
              /\ ReturnedByFullScans(r.db, T, cbs[k].sequence)
              /\ InNoIndex(r.db, T, cbs[k].sequence)

\* C20: if the field extractor raises on a record during ingest, the store is
\* left with that record and all earlier records of the call appended,
\* sequenced and present in both maps; the failing record is returned by full
\* scans of its table and has no entry in any index of that table.
C20_RaisingExtractorLeavesRecordUnindexed ==
    \A input \in RaiseStreams :
        db.storage_.nextSequence_ <= MaxDbRecords =>
            RaisedIngestLeaves(db, FlatSQLDatabase_ingest(db, input),
                               ingest(db.storage_, input).callbacks,
                               FlatSQLDatabase_ingest(db, input).db.storage_.recordCount_
                                 - db.storage_.recordCount_)

\* the value of column c of a row as the key holder reads the record: the
\* extractor of the row's source, then the decryption of the field
DecryptedColumn(d, row, c) ==
    LET source == d.sqliteEngine_.sources_[RowSource(row)]
        rec == RecordAt(d.storage_, RowOffset(row))
    IN  decryptColumnValue(ExtractField(source.extractor, rec.data, rec.length,
                                        d.tables_[source.name].tableDef.columns[c].name))

\* C21: with an encryption key installed, every query that returns an
\* encrypted column, through the virtual table or through the fast path and
\* whatever the order of setEncryptionKey and the table's registration with
\* the engine, returns the decrypted value; exportData still holds the
\* stored ciphertext.
C21_EncryptedColumnsReturnedDecrypted ==
    (lastQuery.asked /\ ~lastQuery.threw /\ db.encryptionCtx_) =>
        \A i \in DOMAIN lastQuery.result.rows :
            LET row == lastQuery.result.rows[i]
                source == db.sqliteEngine_.sources_[RowSource(row)]
                tableDef == db.tables_[source.name].tableDef
            IN  /\ \A c \in DOMAIN tableDef.columns :
                      (tableDef.columns[c].encrypted /\ source.extractor # "none") =>
                          row[c] = DecryptedColumn(db, row, c)
                /\ SubSeq(exportData(db.storage_), RowOffset(row) + SIZE_PREFIX_LENGTH + 1,
                          RowOffset(row) + SIZE_PREFIX_LENGTH
                            + RecordAt(db.storage_, RowOffset(row)).length)
                     = RecordAt(db.storage_, RowOffset(row)).data

\* the database in a thread whose caches are empty
WithEmptyCaches(d) == [d EXCEPT !.sqliteEngine_.sourceNameCache_ = EmptyMap]

SameAnswer(a, b) == a.threw = b.threw /\ a.result = b.result

\* C23: the result of query(sql, params) depends only on sql, params and the
\* state of the database: the thread-local caches filled by earlier queries
\* never change the rows or the column names returned.
C23_CachesDoNotChangeResults ==
    \A q \in DbQueries :
        q.sql.table \in DOMAIN db.tables_ =>
            SameAnswer(FlatSQLDatabase_query(db, q.sql, q.params),
                       FlatSQLDatabase_query(WithEmptyCaches(db), q.sql, q.params))

\* the offsets tried: the log and a little beyond it, and the last size_t
\* values, 2^64 - k written as -k
OffsetsTried(st) ==
    (0..(st.writeOffset_ + SIZE_PREFIX_LENGTH)) \cup
    {-k : k \in 1..(SIZE_PREFIX_LENGTH + 1)}

\* offset + 4 <= write_offset and offset + 4 + size <= write_offset, in the
\* integers
OffsetInBounds(st, offset) ==
    /\ offset >= 0
    /\ offset + SIZE_PREFIX_LENGTH <= st.writeOffset_
    /\ offset + SIZE_PREFIX_LENGTH + readLE32(st.data_, offset) <= st.writeOffset_

\* C24: for every unsigned 64-bit offset, getDataAtOffset succeeds only if
\* offset + 4 <= writeOffset_ and offset + 4 + size <= writeOffset_, then
\* returning length = size and the bytes from offset + 4; for every other
\* offset it fails with the invalid-offset error; it reads nothing outside
\* [0, writeOffset_).
C24_GetDataAtOffsetBoundsChecked ==
    \A offset \in OffsetsTried(store) :
        \A out \in getDataAtOffsetOutcomes(store, offset) :
            /\ out.kind = "ok" =>
                  /\ OffsetInBounds(store, offset)
                  /\ out.length = readLE32(store.data_, offset)
                  /\ out.data = SubSeq(store.data_, offset + SIZE_PREFIX_LENGTH + 1,
                                       offset + SIZE_PREFIX_LENGTH + out.length)
            /\ ~OffsetInBounds(store, offset) => out.kind = "throw"
            /\ out.read \subseteq 0..(store.writeOffset_ - 1)

\* the four virtual columns of a row of source T, as the contract gives them
VirtualColumnsOf(d, T, row) ==
    /\ RowSource(row) = T
    /\ RowId(row) \in DOMAIN d.storage_.sequenceToOffset_
    /\ d.storage_.sequenceToOffset_[RowId(row)] = RowOffset(row)
    /\ row[Len(row) - 2] = Int64Value(RowId(row))
    /\ row[Len(row) - 1] = Int64Value(RowOffset(row))
    /\ row[Len(row)].index = BytesValue(<<>>).index
    /\ row[Len(row)].v = RecordAt(d.storage_, RowOffset(row)).data

\* C25: every row returned for a table, by the virtual table or by the fast
\* path, carries after the declared columns the four virtual columns _source,
\* _rowid, _offset, _data in this order: the source name, the record's
\* sequence, the byte offset of its size prefix, the raw payload bytes.
C25_RowsCarryVirtualColumns ==
    (lastQuery.asked /\ ~lastQuery.threw) =>
        /\ lastQuery.result.columns =
              ColumnNames(db.tables_[lastQuery.sql.table].tableDef) \o VirtualColumns
        /\ \A i \in DOMAIN lastQuery.result.rows :
              /\ Len(lastQuery.result.rows[i]) = Len(lastQuery.result.columns)
              /\ VirtualColumnsOf(db, lastQuery.sql.table, lastQuery.result.rows[i])

\* every cached statement is a statement of the connection that is not
\* finalized and was prepared from the text it is cached under (or null)
CachedUnderOwnText(engine) ==
    \A sql \in DOMAIN engine.stmtCache_ :
        LET stmt == engine.stmtCache_[sql]
        IN  stmt = 0 \/ (/\ stmt \in DOMAIN engine.statements
                         /\ engine.statements[stmt].sql = sql
                         /\ ~engine.statements[stmt].finalized)

\* the statements the cache held before the call are all finalized
EvictedAll(before, after) ==
    \A sql \in DOMAIN before.stmtCache_ :
        /\ (sql \in DOMAIN after.stmtCache_ => after.stmtCache_[sql] # before.stmtCache_[sql])
        /\ before.stmtCache_[sql] # 0 => after.statements[before.stmtCache_[sql]].finalized

CacheWasFull(p) == Cardinality(DOMAIN p.before.stmtCache_) >= MAX_STMT_CACHE_SIZE

\* C26: in every state reached by queries the statement cache holds at most
\* MAX_STMT_CACHE_SIZE statements, each under the text it was prepared from;
\* a new text asked of a full cache finds every cached statement evicted and
\* finalized before it is prepared; a text whose prepare failed is not in the
\* cache
C26_StatementCacheBounded ==
    /\ Cardinality(DOMAIN stmts.stmtCache_) <= MAX_STMT_CACHE_SIZE
    /\ CachedUnderOwnText(stmts)
    /\ (prepared.asked /\ ~prepared.hit /\ CacheWasFull(prepared)) =>
            /\ EvictedAll(prepared.before, stmts)
            /\ DOMAIN stmts.stmtCache_ \subseteq {prepared.sql}
    /\ (prepared.asked /\ prepared.threw) => prepared.sql \notin DOMAIN stmts.stmtCache_

\* a new text was prepared on a full cache, and another failed on a full one
C26_Witness ==
    /\ prepared.asked /\ ~prepared.hit /\ CacheWasFull(prepared)
    /\ (prepared.threw \/ DOMAIN stmts.stmtCache_ = {prepared.sql})
    /\ \E i \in DOMAIN stmts.statements : stmts.statements[i].finalized

\* the usable constraints of a kind, as positions of the list
UsableWhere(info, P(_)) ==
    {i \in DOMAIN info.aConstraint : info.aConstraint[i].usable /\ P(info.aConstraint[i])}

IsIndexedColumn(info, c) ==
    /\ c.iColumn \in 0..(Len(info.vtab.tableDef.columns) - 1)
    /\ info.vtab.tableDef.columns[c.iColumn + 1].name \in info.vtab.indexes

RowidEqualities(info) == UsableWhere(info, LAMBDA c : c.iColumn = -1 /\ c.op = "EQ")

IndexEqualities(info) == UsableWhere(info, LAMBDA c : IsIndexedColumn(info, c) /\ c.op = "EQ")

IndexRanges(info) == UsableWhere(info, LAMBDA c : IsIndexedColumn(info, c) /\ c.op \in RangeOps)

\* idxNum is strategy in the low byte and the column of one of the
\* constraints at positions S above it
EncodesColumnOf(info, strategy, S) ==
    \E i \in S : info.idxNum = strategy + info.aConstraint[i].iColumn * 256

\* C27: for every constraint list, xBestIndex plans rowid equality if a usable
\* rowid equality exists, else equality on an indexed column, else a range
\* on an indexed column, else the full scan; idxNum carries the strategy in
\* its low byte and the chosen column above it
C27_BestIndexPicksCheapest ==
    idxInfo.planned =>
        IF RowidEqualities(idxInfo) # {} THEN idxInfo.idxNum = 1
        ELSE IF IndexEqualities(idxInfo) # {}
        THEN EncodesColumnOf(idxInfo, 2, IndexEqualities(idxInfo))
        ELSE IF IndexRanges(idxInfo) # {}
        THEN EncodesColumnOf(idxInfo, 3, IndexRanges(idxInfo))
        ELSE idxInfo.idxNum = 0

\* the tombstones of the cursor's table
CursorTombstones == db.sqliteEngine_.sources_[cursor.c.vtab].tombstones

\* rows is what a cursor over expected has yielded so far: all of it at
\* EOF, else a non-empty prefix of it
YieldsInOrder(rows, expected) ==
    IF xEof(cursor.c) THEN rows = expected
    ELSE rows # <<>> /\ Len(rows) <= Len(expected) /\ rows = SubSeq(expected, 1, Len(rows))

\* the records of the table's record-info vector that have no tombstone
LiveRecordInfos ==
    SelectSeq(db.tables_[cursor.c.vtab].recordInfos_,
              LAMBDA info : info.sequence \notin CursorTombstones)

\* C28: a full-scan cursor, from xFilter through its xNext calls, yields the
\* records of the table's record-info vector that have no tombstone, each
\* once, in strictly increasing sequence, then is at EOF and stays there
C28_FullScanYieldsLiveRecords ==
    (cursor.filtered /\ cursor.idxNum % 256 = 0) =>
        /\ ~cursor.raised
        /\ YieldsInOrder(yielded, LiveRecordInfos)
        /\ \A i, j \in DOMAIN yielded : i < j => yielded[i].sequence < yielded[j].sequence
        /\ cursor.pastEof > 0 => xEof(cursor.c)

\* a full scan stepped past EOF after yielding a record and skipping a
\* tombstoned one
C28_Witness ==
    /\ cursor.filtered /\ cursor.idxNum % 256 = 0
    /\ cursor.pastEof > 0
    /\ yielded # <<>>
    /\ Len(yielded) < Len(db.tables_[cursor.c.vtab].recordInfos_)

\* the entries of the index on column colIdx whose key is the argument
\* value and whose sequence has no tombstone, as rows
EntriesEqualTo(colIdx, arg) ==
    LET ts == db.tables_[cursor.c.vtab]
        ix == ts.indexes_[ts.tableDef.columns[colIdx + 1].name]
        hits == SelectSeq(ix, LAMBDA e : /\ e.key.index = columnValue(arg).index
                                         /\ e.key.v = arg.v
                                         /\ e.sequence \notin CursorTombstones)
    IN  [i \in DOMAIN hits |-> [offset |-> hits[i].dataOffset, sequence |-> hits[i].sequence]]

\* C29: a cursor filtered with strategy 2 on the indexed column name, which
\* is not the key, yields the index entries whose key equals the argument
\* and whose sequence has no tombstone, each once, then EOF
C29_IndexEqualityYieldsMatches ==
    (cursor.filtered /\ cursor.idxNum = 2 + 256) =>
        /\ ~cursor.raised
        /\ YieldsInOrder(yielded, EntriesEqualTo(1, cursor.argv[1]))

\* a point lookup of the fast path raises
FastLookupRaises(d) ==
    \E q \in DbQueries : tryFastPath(d, q.sql, q.params).threw

\* C30: in every reachable state, reloads over existing indexes included, no
\* exception leaves xFilter, xNext or a fast-path lookup: an offset the
\* store cannot resolve ends the cursor with EOF and the query with no rows
C30_UnresolvableOffsetsEndQuietly ==
    /\ ~cursor.raised
    /\ ~FastLookupRaises(db)

Sign(n) == IF n < 0 THEN -1 ELSE IF n > 0 THEN 1 ELSE 0

\* a before b in the order the rules of the Value domain prescribe
RuleCompare(a, b) ==
    IF a.index # b.index
    THEN (IF a.index < b.index THEN -1 ELSE 1)
    ELSE IF a.index \in {12, 13} THEN LexCompare(a.v, b.v)
    ELSE Sign(a.v - b.v)

\* C31: compareValues returns only -1, 0 or 1 and is a total order on the
\* Values without floating point: reflexive, antisymmetric, transitive, null
\* first, different variants by tag, strings and bytes lexicographic by byte
C31_CompareValuesTotalOrder ==
    compared.done =>
        /\ {compared.ab, compared.ba, compared.bc, compared.ac, compared.aa} \subseteq {-1, 0, 1}
        /\ compared.aa = 0
        /\ compared.ab = -compared.ba
        /\ (compared.ab <= 0 /\ compared.bc <= 0) => compared.ac <= 0
        /\ compared.ab = RuleCompare(compared.a, compared.b)

\* the keys of a sequence of entries never decrease
AscendingKeys(entries) ==
    \A i, j \in DOMAIN entries : i < j => compareValues(entries[i].key, entries[j].key) <= 0

\* C32: for every order, every sequence of inserts and every lo <= hi,
\* range(lo, hi) returns exactly the inserted entries with lo <= key <= hi,
\* each once, in ascending key order
C32_RangeReturnsInsertedInOrder ==
    found.ranged =>
        /\ BagOfSeq(found.results) =
              BagOfSeq(SelectSeq(inserted, LAMBDA e : /\ compareValues(e.key, found.key) >= 0
                                                      /\ compareValues(e.key, found.maxKey) <= 0))
        /\ AscendingKeys(found.results)

\* a range over a tree that has split returned some, not all, of the entries
C32_Witness ==
    /\ found.ranged
    /\ ~tree.nodes_[tree.rootId_].isLeaf
    /\ Len(found.results) >= 2
    /\ Len(found.results) < Len(inserted)

\* the words of a normalized statement, split at its single spaces
RECURSIVE Words(_)
Words(str) ==
    LET sp == StringFind(str, " ", 0) IN
    IF str = "" THEN <<>>
    ELSE IF sp = npos THEN <<str>>
    ELSE <<Substr(str, 0, sp)>> \o Words(SubstrFrom(str, sp + 1))

\* the statement is, after normalisation and without a trailing semicolon,
\* select * from T or select * from T where C = ?
IsFastPathShape(sql) ==
    LET w == Words(PopBackWhile(normalizeSQL(sql), {" ", ";"})) IN
    /\ Len(w) \in {4, 8}
    /\ SubSeq(w, 1, 3) = <<"select", "*", "from">>
    /\ Len(w) = 8 => (w[5] = "where" /\ w[7] = "=" /\ w[8] = "?")

\* C33: the fast path answers a statement only when its text is, after
\* whitespace and case normalisation, exactly SELECT * FROM T or
\* SELECT * FROM T WHERE C = ?; every other text goes to the SQL executor
C33_FastPathOnlyForTheTwoShapes ==
    (textQuery.asked /\ textQuery.fastPath) => IsFastPathShape(textQuery.sql)

\* column iColumn of the row the cursor yielded, as a SQLite value: the
\* rowid, the source name of the virtual table, or the record's field
ColumnOfRow(row, iColumn) ==
    LET ts == db.tables_[cursor.c.vtab]
        rec == RecordAt(db.storage_, row.offset)
    IN  IF iColumn = -1 THEN SqliteValue("INTEGER", row.sequence)
        ELSE IF iColumn = Len(ts.tableDef.columns)
        THEN SqliteValue("TEXT", TextOf(db.sqliteEngine_.sources_[cursor.c.vtab].name))
        ELSE setResultFromValue(ExtractField("demo", rec.data, rec.length,
                                             ts.tableDef.columns[iColumn + 1].name))

\* the row satisfies column = value
SatisfiesEquality(row, constraint) ==
    /\ ColumnOfRow(row, constraint.iColumn).type = constraint.value.type
    /\ ColumnOfRow(row, constraint.iColumn).v = constraint.value.v

\* C34: for every combination of usable constraints in one query, every row
\* the cursor returns satisfies every constraint that xBestIndex marked
\* omit (rowid equality, equality on an indexed column, equality on _source)
C34_OmittedConstraintsHoldOnRows ==
    (cursor.filtered /\ idxInfo.planned) =>
        \A k \in DOMAIN yielded, i \in DOMAIN idxInfo.aConstraint :
            idxInfo.aConstraintUsage[i].omit = 1 =>
                SatisfiesEquality(yielded[k], idxInfo.aConstraint[i])

\* the sequences of the records routed to the cursor's table
RoutedSequences ==
    {db.tables_[cursor.c.vtab].recordInfos_[i].sequence :
        i \in DOMAIN db.tables_[cursor.c.vtab].recordInfos_}

\* C35: every row a cursor over table T (or T@s) returns, for every
\* strategy including the rowid lookup, refers to a record that was routed
\* to that table
C35_RowsBelongToTheTable ==
    cursor.filtered => \A k \in DOMAIN yielded : yielded[k].sequence \in RoutedSequences

\* the sequences of the records of table T that have no tombstone and whose
\* entry in the index on column C carries the key k
LiveWithKey(T, C, k) ==
    LET tombstones == IF T \in DOMAIN db.sqliteEngine_.sources_
                      THEN db.sqliteEngine_.sources_[T].tombstones ELSE {}
        ix == db.tables_[T].indexes_[C]
    IN  {ix[i].sequence : i \in {j \in DOMAIN ix : /\ ix[j].key.index = k.index
                                                   /\ ix[j].key.v = k.v
                                                   /\ ix[j].sequence \notin tombstones}}

\* C36: a record of table T that is not tombstoned and whose indexed column
\* C has value k is returned by an equality query on C = k, whatever
\* tombstones exist on other records, also when several records share k
C36_LiveRecordWithKeyIsReturned ==
    (lastQuery.asked /\ ~lastQuery.threw /\ lastQuery.sql.shape = "point") =>
        LiveWithKey(lastQuery.sql.table, lastQuery.sql.column, lastQuery.params[1])
            \subseteq RowIds(lastQuery.result)

\* C37: every ingest, ingestOne, ingestFlatBuffer and loadAndRebuild call
\* returns, for every initial capacity the store can be constructed with,
\* 0 included: the growth loop of ensureCapacity reaches a size that fits
C37_EveryCallTerminates == ~hung

\* the payloads of the complete framed records of S, in stream order
RECURSIVE CompleteRecords(_)
CompleteRecords(S) ==
    IF Len(S) < SIZE_PREFIX_LENGTH \/ SIZE_PREFIX_LENGTH + FrameSize(S) > Len(S) THEN <<>>
    ELSE <<SubSeq(S, SIZE_PREFIX_LENGTH + 1, SIZE_PREFIX_LENGTH + FrameSize(S))>> \o
         CompleteRecords(SubSeq(S, SIZE_PREFIX_LENGTH + FrameSize(S) + 1, Len(S)))

\* the payloads the store holds, by sequence
StoredPayloads(st) ==
    [seq \in 1..(st.nextSequence_ - 1) |-> RecordAt(st, st.sequenceToOffset_[seq]).data]

\* C38: when the command-line tool has read standard input to end of file,
\* the store holds each complete framed record of the input exactly once,
\* in stream order
C38_StdinRecordsStoredOnce ==
    (pc = "done" /\ ~hung) => StoredPayloads(store) = CompleteRecords(stream)

\* C39: where size_t is 32 bits wide, ingest takes a record as complete only
\* if offset + 4 + size <= len holds in unbounded arithmetic, advances its
\* read offset by at least 4 for every record it accepts, and terminates
C39_Ingest32ChecksWithoutWrap ==
    /\ call.op = "ingest32" =>
          /\ call.fbSize.hi = 0
          /\ call.offset + SIZE_PREFIX_LENGTH + call.fbSize.lo <= Len(stream)
          /\ call.advance >= SIZE_PREFIX_LENGTH
    /\ ~hung
    /\ pc # "trapped"
    /\ store.recordCount_ * SIZE_PREFIX_LENGTH <= Len(stream)

\* C40: for every table T with a bound file identifier, markDeleted(T, seq)
\* succeeds, whether or not a query was made or an extractor installed
\* before: it raises only for a table without a bound file identifier, and
\* after it the deleted count of T is at least one and the row is tombstoned
C40_MarkDeletedSucceedsOnBoundTables ==
    /\ hiding.phase = "raised" => db.tables_[hiding.table].fileId_ = <<>>
    /\ hiding.phase = "deleted" =>
          /\ SQLiteEngine_getDeletedCount(db.sqliteEngine_, hiding.table) >= 1
          /\ hiding.sequence \in db.sqliteEngine_.sources_[hiding.table].tombstones

====
